---- MODULE Spec2Model ----
(***************************************************************************)
(* A model of the loss-run text pipeline of text_lob_llm_extractor.py:     *)
(* the chunker, the LOB classifiers with their keyword fallbacks, the      *)
(* chunked field extraction and its merge, the heuristic WC extractor and  *)
(* the money normalizer; and of the programs around it: the table          *)
(* extractor of claude_pdf_extractor.py, the PDF converter fitzTest3.py    *)
(* and the browser app streamlit_e2e_app.py.  Texts are TLA+ strings; a    *)
(* Python index i is the 0-based position of a character, as in the        *)
(* source.                                                                 *)
(***************************************************************************)
EXTENDS Integers, Sequences, FiniteSets, TLC

VARIABLES
    pc,          \* position of the running operation
    text,        \* the text argument of the running operation
    max_chars,   \* _chunk_text_for_llm: the max_chars argument
    start,       \* _chunk_text_for_llm: the cursor
    chunks,      \* _chunk_text_for_llm: the chunks appended so far
    parts,       \* extract_fields_llm_chunked: its local list chunks
    idx,         \* extract_fields_llm_chunked: number of chunks processed
    merged,      \* extract_fields_llm_chunked: the merged result
    results,     \* the result extract_fields_llm returned for each chunk so far
    resp_multi,  \* classify_lobs_multi: the oracle's answer
    resp_single, \* classify_lob: the oracle's answer
    lobs_out,    \* classify_lobs_multi: the returned list
    lob_out,     \* classify_lob: the returned label
    heur_out,    \* heuristic_extract_wc: the returned dict
    value,       \* _parse_money: the argument
    money_out,   \* _parse_money: the returned string, then that of a second pass
    resp_extract, \* extract_fields_llm: the oracle's answer
    extract_out, \* extract_fields_llm: the returned dict
    cfg,         \* main: what load_aws_config_from_py and setup_bedrock_client find
    batch,       \* main: text_files, each with the oracle's answers for it
    doc_i,       \* main: number of documents taken from text_files
    doc_results, \* main: results of process_text_file for the current document
    res_i,       \* main: number of results of the current document handled
    auto_rows,   \* main: auto_rows
    gl_rows,     \* main: gl_rows
    wc_rows,     \* main: wc_rows
    log,         \* main: one record per (document, LOB) pair handled
    reads,       \* number of times a document was opened
    calls,       \* number of invoke_model calls
    summary,     \* main: the printed per-LOB counts
    per_lob,     \* write_outputs: the per_lob argument
    written,     \* write_outputs: the files written, with their sheets
    max_chunk_size, \* extract_tables_with_claude_page_by_page: the argument
    api_delay,   \* extract_tables_with_claude_page_by_page: the argument
    answers,     \* extract_tables_with_claude_page_by_page: the oracle's answer per chunk
    text_chunks, \* extract_tables_with_claude_page_by_page: text_chunks
    chunk_idx,   \* extract_tables_with_claude_page_by_page: number of chunks processed
    all_tables,  \* extract_tables_with_claude_page_by_page: all_tables
    events,      \* the invoke_model and time.sleep calls made, in order
    pdf_path,    \* pdf_to_text: the pdf_path argument
    doc_pages,   \* pdf_to_text: the page texts of the PDF
    faults,      \* pdf_to_text: what each open()/write of the output file does
    attempt,     \* pdf_to_text: number of write attempts made
    text_file,   \* pdf_to_text: the content of the output file
    ret,         \* pdf_to_text: the returned value
    uploader,    \* streamlit_e2e_app: the file in the st.file_uploader widget
    session_state, \* streamlit_e2e_app: st.session_state
    last_run     \* streamlit_e2e_app: what the last Start Processing click did

chunkVars == <<max_chars, start, chunks>>
mergeVars == <<parts, idx, merged, results>>
classVars == <<resp_multi, resp_single, lobs_out, lob_out>>
heurVars == <<heur_out>>
moneyVars == <<value, money_out>>
extractVars == <<resp_extract, extract_out>>
batchVars ==
    <<cfg, batch, doc_i, doc_results, res_i, auto_rows, gl_rows, wc_rows, log,
      reads, calls, summary>>
writeVars == <<per_lob, written>>
pagesVars ==
    <<max_chunk_size, api_delay, answers, text_chunks, chunk_idx, all_tables, events>>
fitzVars == <<pdf_path, doc_pages, faults, attempt, text_file, ret>>
uiVars == <<uploader, session_state, last_run>>
appVars == <<pagesVars, fitzVars, uiVars>>
vars ==
    <<pc, text, chunkVars, mergeVars, classVars, heurVars, moneyVars, extractVars,
      batchVars, writeVars, appVars>>

\* what the chunker, the chunked extraction, the classifiers, the heuristic
\* extractor and the money normalizer each leave alone
exceptChunk == <<mergeVars, classVars, heurVars, moneyVars, extractVars, batchVars, writeVars, appVars>>
exceptMerge == <<chunkVars, classVars, heurVars, moneyVars, extractVars, batchVars, writeVars, appVars>>
exceptClass == <<chunkVars, mergeVars, heurVars, moneyVars, extractVars, batchVars, writeVars, appVars>>
exceptHeur == <<chunkVars, mergeVars, classVars, moneyVars, extractVars, batchVars, writeVars, appVars>>
exceptMoney == <<chunkVars, mergeVars, classVars, heurVars, extractVars, batchVars, writeVars, appVars>>
exceptExtract == <<chunkVars, mergeVars, classVars, heurVars, moneyVars, batchVars, writeVars, appVars>>
exceptBatch == <<chunkVars, mergeVars, classVars, heurVars, moneyVars, extractVars, appVars>>
exceptWrite == <<chunkVars, mergeVars, classVars, heurVars, moneyVars, extractVars, batchVars, appVars>>
\* what the table extractor, the PDF converter and the browser app leave alone
pipelineVars ==
    <<chunkVars, mergeVars, classVars, heurVars, moneyVars, extractVars, batchVars, writeVars>>
exceptPages == <<pipelineVars, fitzVars, uiVars>>
exceptFitz == <<text, pipelineVars, pagesVars, uiVars>>
exceptUi == <<text, pipelineVars, pagesVars, fitzVars>>

ChunkIdle == max_chars = 0 /\ start = 0 /\ chunks = <<>>
MergeIdle == parts = <<>> /\ idx = 0 /\ merged = <<>> /\ results = <<>>
\* no oracle call made (yet)
NoResp == [kind |-> "none", prose |-> FALSE, obj |-> <<>>]
ClassIdle == resp_multi = NoResp /\ resp_single = NoResp /\ lobs_out = <<>> /\ lob_out = ""
HeurIdle == heur_out = <<>>
MoneyIdle == value = "" /\ money_out = <<>>
ExtractIdle == resp_extract = NoResp /\ extract_out = <<>>
BatchIdle ==
    /\ cfg = <<>> /\ batch = <<>> /\ doc_i = 0 /\ doc_results = <<>> /\ res_i = 0
    /\ auto_rows = <<>> /\ gl_rows = <<>> /\ wc_rows = <<>> /\ log = <<>>
    /\ reads = 0 /\ calls = 0 /\ summary = <<>>
WriteIdle == per_lob = <<>> /\ written = <<>>
PagesIdle ==
    /\ max_chunk_size = 0 /\ api_delay = 0 /\ answers = <<>> /\ text_chunks = <<>>
    /\ chunk_idx = 0 /\ all_tables = <<>> /\ events = <<>>
FitzIdle ==
    /\ pdf_path = "" /\ doc_pages = <<>> /\ faults = <<>> /\ attempt = 0
    /\ text_file = "" /\ ret = ""
UiIdle == uploader = <<>> /\ session_state = <<>> /\ last_run = <<>>
\* the programs outside text_lob_llm_extractor.py are not running
AppsIdle == PagesIdle /\ FitzIdle /\ UiIdle
\* the whole text pipeline is not running
PipelineIdle ==
    /\ ChunkIdle /\ MergeIdle /\ ClassIdle /\ HeurIdle /\ MoneyIdle
    /\ ExtractIdle /\ BatchIdle /\ WriteIdle
\* extract_fields_llm alone, main and write_outputs are not running
RestIdle == ExtractIdle /\ BatchIdle /\ WriteIdle /\ AppsIdle

----------------------------------------------------------------------------
(* Python's str and list primitives.                                       *)

Min(a, b) == IF a <= b THEN a ELSE b
Max(a, b) == IF a >= b THEN a ELSE b
SetMax(S) == CHOOSE m \in S : \A k \in S : k <= m
SetMin(S) == CHOOSE m \in S : \A k \in S : m <= k

\* s[i] for 0 <= i < len(s)
CharAt(s, i) == SubSeq(s, i + 1, i + 1)

\* s[a:b] for 0 <= a, 0 <= b
Slice(s, a, b) ==
    LET hi == Min(b, Len(s))
    IN  IF a >= hi THEN "" ELSE SubSeq(s, a + 1, hi)

\* s.rfind(ch, a, b) for a one-character ch and 0 <= a, 0 <= b
RFind(s, ch, a, b) ==
    LET hits == {i \in a..(Min(b, Len(s)) - 1) : CharAt(s, i) = ch}
    IN  IF hits = {} THEN -1 ELSE SetMax(hits)

RECURSIVE Rep(_, _)
\* s * k
Rep(s, k) ==
    IF k = 0 THEN ""
    ELSE IF k % 2 = 0 THEN LET h == Rep(s, k \div 2) IN h \o h
    ELSE s \o Rep(s, k - 1)

RECURSIVE Concat(_)
\* "".join(seq)
Concat(seq) == IF seq = <<>> THEN "" ELSE Head(seq) \o Concat(Tail(seq))

\* k in s
Contains(s, k) ==
    \E i \in 0..(Len(s) - Len(k)) : SubSeq(s, i + 1, i + Len(k)) = k

\* s.find(k, a) for 0 <= a
Find(s, k, a) ==
    LET hits == {i \in a..(Len(s) - Len(k)) : SubSeq(s, i + 1, i + Len(k)) = k}
    IN  IF hits = {} THEN -1 ELSE SetMin(hits)

LowerLetters == "abcdefghijklmnopqrstuvwxyz"
UpperLetters == "ABCDEFGHIJKLMNOPQRSTUVWXYZ"
Digits == "0123456789"
Whitespace == {" ", "\t", "\n", "\r"}

\* c.upper() and c.lower() of one ASCII character
UpperOf ==
    [c \in {CharAt(LowerLetters, i) : i \in 0..25} |->
        CharAt(UpperLetters, Find(LowerLetters, c, 0))]
LowerOf ==
    [c \in {CharAt(UpperLetters, i) : i \in 0..25} |->
        CharAt(LowerLetters, Find(UpperLetters, c, 0))]
UpperChar(c) == IF c \in DOMAIN UpperOf THEN UpperOf[c] ELSE c
LowerChar(c) == IF c \in DOMAIN LowerOf THEN LowerOf[c] ELSE c

RECURSIVE Upper(_)
\* s.upper()
Upper(s) ==
    IF Len(s) <= 1 THEN UpperChar(s)
    ELSE Upper(Slice(s, 0, Len(s) \div 2)) \o Upper(Slice(s, Len(s) \div 2, Len(s)))

RECURSIVE Lower(_)
\* s.lower()
Lower(s) ==
    IF Len(s) <= 1 THEN LowerChar(s)
    ELSE Lower(Slice(s, 0, Len(s) \div 2)) \o Lower(Slice(s, Len(s) \div 2, Len(s)))

\* s.strip()
Strip(s) ==
    LET keep == {i \in 0..(Len(s) - 1) : CharAt(s, i) \notin Whitespace}
    IN  IF keep = {} THEN "" ELSE Slice(s, SetMin(keep), SetMax(keep) + 1)

RECURSIVE IntStr(_)
\* str(n) for an int n >= 0
IntStr(n) ==
    IF n < 10 THEN CharAt(Digits, n) ELSE IntStr(n \div 10) \o CharAt(Digits, n % 10)

----------------------------------------------------------------------------
(* _chunk_text_for_llm                                                     *)

\* the newline cut is taken only when nl > start + 1000
NewlineMinOffset == 1000
\* the default of max_chars
DefaultMaxChars == 15000

\* A plausible slip: the newline is searched up to the end of the text
\* instead of up to the candidate end.
ChunkEndSearchToEnd(t, s, m) ==
    LET n   == Len(t)
        end == Min(s + m, n)
        nl  == RFind(t, "\n", s, n)
    IN  IF end < n /\ nl # -1 /\ nl > s + NewlineMinOffset THEN nl ELSE end

\* A plausible slip: the cut is taken after the newline and the newline
\* itself is dropped from the chunk.
ChunkSliceDropNewline(t, s, e) ==
    IF e > s /\ e < Len(t) /\ CharAt(t, e - 1) = "\n"
    THEN Slice(t, s, e - 1) ELSE Slice(t, s, e)

\* A plausible slip: the newline is accepted from start + 1000 on, not
\* only beyond it.
ChunkEndFromOffset(t, s, m) ==
    LET n   == Len(t)
        end == Min(s + m, n)
        nl  == IF end < n THEN RFind(t, "\n", s, end) ELSE -1
    IN  IF end < n /\ nl # -1 /\ nl >= s + NewlineMinOffset THEN nl ELSE end

\* the end of the chunk that starts at cursor s: one pass of the loop body
ChunkEnd(t, s, m) ==
    LET n   == Len(t)
        end == Min(s + m, n)
        nl  == IF end < n THEN RFind(t, "\n", s, end) ELSE -1
    IN  IF end < n /\ nl # -1 /\ nl > s + NewlineMinOffset THEN nl ELSE end

\* chunks.append(text[start:end])
ChunkSlice(t, s, e) == Slice(t, s, e)

RECURSIVE ChunkFrom(_, _, _)
\* the while loop from cursor s on (m >= 1)
ChunkFrom(t, s, m) ==
    IF s < Len(t)
    THEN LET e == ChunkEnd(t, s, m) IN <<ChunkSlice(t, s, e)>> \o ChunkFrom(t, e, m)
    ELSE <<>>

\* the whole function, for its callers (m >= 1)
_chunk_text_for_llm(t, m) == IF t = "" THEN <<>> ELSE ChunkFrom(t, 0, m)

\* Inputs of the chunker: texts of up to MaxSegs runs of one letter, each
\* run with or without a closing newline, and a max_chars for which the
\* text needs at most MaxChunks chunks (max_chars = 0 never finishes: the
\* model stops it after MaxChunks chunks).
MaxSegs == 2
MaxChunks == 3
SegLens == {0, 1, NewlineMinOffset, NewlineMinOffset + 1}
Segments == {Rep(c, k) \o e : c \in {"a", "b"}, k \in SegLens, e \in {"", "\n"}}
ChunkTexts == {Concat(q) : q \in UNION {[1..k -> Segments] : k \in 0..MaxSegs}}
MaxCharsSet == {0, 1, 2, NewlineMinOffset + 2, NewlineMinOffset + 500}

\* if not text: return chunks
ChunkReturnEmpty ==
    /\ pc = "chunk_call"
    /\ text = ""
    /\ pc' = "chunk_done"
    /\ UNCHANGED <<text, chunkVars, exceptChunk>>

\* start = 0; n = len(text)
ChunkEnter ==
    /\ pc = "chunk_call"
    /\ text # ""
    /\ pc' = "chunk_loop"
    /\ start' = 0
    /\ UNCHANGED <<text, max_chars, chunks, exceptChunk>>

\* one iteration of: while start < n
ChunkStep ==
    /\ pc = "chunk_loop"
    /\ start < Len(text)
    /\ Len(chunks) < MaxChunks
    /\ LET end == ChunkEnd(text, start, max_chars)
       IN  /\ chunks' = Append(chunks, ChunkSlice(text, start, end))
           /\ start' = end
    /\ UNCHANGED <<pc, text, max_chars, exceptChunk>>

\* the loop condition fails: return chunks
ChunkReturn ==
    /\ pc = "chunk_loop"
    /\ start >= Len(text)
    /\ pc' = "chunk_done"
    /\ UNCHANGED <<text, chunkVars, exceptChunk>>

InitChunk ==
    /\ pc = "chunk_call"
    /\ text \in ChunkTexts
    /\ max_chars \in MaxCharsSet
    /\ IF max_chars = 0 THEN TRUE
       ELSE Len(text) <= MaxChunks * Min(max_chars, NewlineMinOffset + 1)
    /\ start = 0
    /\ chunks = <<>>
    /\ MergeIdle /\ ClassIdle /\ HeurIdle /\ MoneyIdle
    /\ RestIdle

NextChunk == ChunkReturnEmpty \/ ChunkEnter \/ ChunkStep \/ ChunkReturn

SpecChunk == InitChunk /\ [][NextChunk]_vars

\* C1: for max_chars >= 1 the chunks appended so far concatenate to the text
\* before the cursor, each chunk is the slice of the text at the offset where
\* the chunks before it end, and the returned chunks concatenate to the
\* whole text: nothing is lost, duplicated or reordered.
ChunkCoverage ==
    max_chars >= 1 =>
        /\ \A i \in 1..Len(chunks) :
              LET off == Len(Concat(SubSeq(chunks, 1, i - 1)))
              IN  chunks[i] = Slice(text, off, off + Len(chunks[i]))
        /\ pc = "chunk_loop" => Concat(chunks) = Slice(text, 0, start)
        /\ pc = "chunk_done" => Concat(chunks) = text

\* a finished run of several chunks, one of them cut at a newline
ChunkCoverageWitness ==
    /\ pc = "chunk_done"
    /\ max_chars >= 1
    /\ Len(chunks) >= 2
    /\ \E i \in 1..(Len(chunks) - 1) :
          /\ Len(chunks[i]) < max_chars
          /\ CharAt(chunks[i + 1], 0) = "\n"

\* C2: for max_chars >= 1 every chunk has at most max_chars characters.
ChunkLengthBound ==
    max_chars >= 1 => \A i \in 1..Len(chunks) : Len(chunks[i]) <= max_chars

\* a finished run with a chunk of exactly max_chars characters although the
\* text has a newline further on
ChunkLengthBoundWitness ==
    /\ pc = "chunk_done"
    /\ max_chars >= 1
    /\ Len(text) > max_chars
    /\ Len(chunks[1]) = max_chars
    /\ RFind(text, "\n", max_chars, Len(text)) # -1

----------------------------------------------------------------------------
(* The oracle's answers and their parsing.                                 *)

\* JSON values as json.loads returns them
JStr(s) == [t |-> "str", v |-> s]
JNull == [t |-> "null"]
JNum(k) == [t |-> "num", v |-> k]
JList(q) == [t |-> "list", v |-> q]
JObj(d) == [t |-> "obj", v |-> d]

\* bool(j) of a parsed JSON value
Truthy(j) ==
    CASE j.t = "str" -> j.v # ""
      [] j.t = "null" -> FALSE
      [] j.t = "num" -> j.v # 0
      [] j.t = "list" -> j.v # <<>>
      [] j.t = "obj" -> DOMAIN j.v # {}

\* d.get(k, default) of a dict, a function from its keys
Get(d, k, default) == IF k \in DOMAIN d THEN d[k] ELSE default

\* d.setdefault(k, v)
SetDefault(d, k, v) ==
    IF k \in DOMAIN d THEN d ELSE [x \in DOMAIN d \cup {k} |-> IF x = k THEN v ELSE d[x]]

\* An answer of invoke_model: it raises (or its body has not the expected
\* layout), or it carries a text content that has no {...} span
\* ("no_braces"), whose span from the first { to the last } is not JSON
\* ("bad_json"), or whose span parses to the dict obj ("object"); prose
\* tells whether text surrounds the span.
Raise == [kind |-> "raise", prose |-> FALSE, obj |-> <<>>]
Content(kind, prose, obj) == [kind |-> kind, prose |-> prose, obj |-> obj]

\* body = json.loads(...); content = ...; start = content.find('{');
\* end = content.rfind('}') + 1; obj = json.loads(content[start:end]):
\* the dict reached, if any (a span that starts with { and parses is a dict)
ParsedObject(resp) ==
    IF resp.kind = "object" THEN [ok |-> TRUE, obj |-> resp.obj]
    ELSE [ok |-> FALSE, obj |-> <<>>]

----------------------------------------------------------------------------
(* extract_fields_llm and extract_fields_llm_chunked                       *)

ZeroResult == [evaluation_date |-> JStr(""), carrier |-> JStr(""), claims |-> JList(<<>>)]

\* A plausible slip: the isinstance(obj['claims'], list) test is lost.
ExtractNoListTest(resp) ==
    LET p == ParsedObject(resp)
    IN  IF p.ok /\ "claims" \in DOMAIN p.obj
        THEN SetDefault(SetDefault(p.obj, "evaluation_date", JStr("")), "carrier", JStr(""))
        ELSE ZeroResult

\* the result of extract_fields_llm for the oracle answer resp (the LOB
\* only selects the schema named in the prompt)
extract_fields_llm(resp) ==
    LET p == ParsedObject(resp)
    IN  IF p.ok /\ "claims" \in DOMAIN p.obj /\ p.obj["claims"].t = "list"
        THEN SetDefault(SetDefault(p.obj, "evaluation_date", JStr("")), "carrier", JStr(""))
        ELSE ZeroResult

\* A plausible slip: the guard "and not merged[...]" is missing, so a later
\* non-empty scalar overwrites an earlier one.
MergeScalarLastWins(m, r, k) ==
    IF Truthy(Get(r, k, JNull)) THEN Get(r, k, JStr("")) ELSE m[k]

\* A plausible slip: claims already merged are skipped.
MergeClaimsDedup(m, r) ==
    IF Get(r, "claims", JNull).t = "list"
    THEN m.claims \o SelectSeq(r["claims"].v,
                               LAMBDA c : \A i \in 1..Len(m.claims) : m.claims[i] # c)
    ELSE m.claims

\* if result.get(k) and not merged[k]: merged[k] = result.get(k, '')
MergeScalar(m, r, k) ==
    IF Truthy(Get(r, k, JNull)) /\ ~Truthy(m[k]) THEN Get(r, k, JStr("")) ELSE m[k]

\* if isinstance(result.get('claims'), list): merged['claims'].extend(...)
MergeClaims(m, r) ==
    IF Get(r, "claims", JNull).t = "list" THEN m.claims \o r["claims"].v ELSE m.claims

\* one pass of the merge loop
MergeResult(m, r) ==
    [evaluation_date |-> MergeScalar(m, r, "evaluation_date"),
     carrier |-> MergeScalar(m, r, "carrier"),
     claims |-> MergeClaims(m, r)]

\* Inputs of the chunked extraction: texts of one, two and three chunks
\* (the empty text, for which the caller substitutes [text]; a text cut at
\* a newline), and for each chunk any oracle answer.
MergeTexts ==
    {"", "x", Rep("a", DefaultMaxChars), Rep("a", DefaultMaxChars + 1),
     Rep("a", DefaultMaxChars - 1000) \o "\n" \o Rep("b", 2000),
     Rep("a", 2 * DefaultMaxChars + 1)}
ClaimA == JObj([claim_number |-> JStr("A-1"), loss_date |-> JStr("2019-05-01")])
ClaimB == JObj([claim_number |-> JStr(""), loss_date |-> JStr("2019-07-04")])
DictOf(keys, d) == [k \in keys |-> d[k]]
ExtractObjects ==
    {DictOf(keys, [evaluation_date |-> e, carrier |-> c, claims |-> l]) :
        keys \in SUBSET {"evaluation_date", "carrier", "claims"},
        e \in {JStr(""), JNull, JStr("2020-01-01"), JStr("2021-06-30")},
        c \in {JStr(""), JStr("X"), JStr("Y")},
        l \in {JStr("none"), JList(<<>>), JList(<<ClaimA>>), JList(<<ClaimB>>)}}
ExtractResponses ==
    {Raise, Content("no_braces", FALSE, <<>>), Content("bad_json", FALSE, <<>>)}
        \cup {Content("object", FALSE, o) : o \in ExtractObjects}

\* chunks = _chunk_text_for_llm(text); if not chunks: chunks = [text];
\* merged = {"evaluation_date": "", "carrier": "", "claims": []}
MergeEnter ==
    /\ pc = "merge_call"
    /\ LET c == _chunk_text_for_llm(text, DefaultMaxChars)
       IN  parts' = IF c = <<>> THEN <<text>> ELSE c
    /\ merged' = [evaluation_date |-> JStr(""), carrier |-> JStr(""), claims |-> <<>>]
    /\ idx' = 0
    /\ pc' = "merge_loop"
    /\ UNCHANGED <<text, results, exceptMerge>>

\* one iteration of: for idx, part in enumerate(chunks)
MergeStep ==
    /\ pc = "merge_loop"
    /\ idx < Len(parts)
    /\ \E resp \in ExtractResponses :
          LET result == extract_fields_llm(resp)
          IN  /\ merged' = MergeResult(merged, result)
              /\ results' = Append(results, result)
    /\ idx' = idx + 1
    /\ UNCHANGED <<pc, text, parts, exceptMerge>>

\* return merged
MergeReturn ==
    /\ pc = "merge_loop"
    /\ idx = Len(parts)
    /\ pc' = "merge_done"
    /\ UNCHANGED <<text, mergeVars, exceptMerge>>

InitMerge ==
    /\ pc = "merge_call"
    /\ text \in MergeTexts
    /\ ChunkIdle /\ MergeIdle /\ ClassIdle /\ HeurIdle /\ MoneyIdle
    /\ RestIdle

NextMerge == MergeEnter \/ MergeStep \/ MergeReturn

SpecMerge == InitMerge /\ [][NextMerge]_vars

\* the value of key k in the first of the results rs that has a non-empty
\* one, and "" if none has
FirstNonEmpty(rs, k) ==
    LET hits == {i \in 1..Len(rs) : Truthy(rs[i][k])}
    IN  IF hits = {} THEN JStr("") ELSE rs[SetMin(hits)][k]

\* C6: after any number of chunks the merged evaluation_date (carrier) is
\* the one of the first chunk result, in chunk order, that has a non-empty
\* one, and "" if none has; so once set it is not changed by a later chunk.
MergeFirstWins ==
    pc \in {"merge_loop", "merge_done"} =>
        /\ merged.evaluation_date = FirstNonEmpty(results, "evaluation_date")
        /\ merged.carrier = FirstNonEmpty(results, "carrier")

\* the two results of the example, merged, with a later chunk's scalars
\* turned down
MergeFirstWinsWitness ==
    /\ pc = "merge_done"
    /\ Len(results) >= 2
    /\ results[1] = [evaluation_date |-> JStr(""), carrier |-> JStr("X"),
                     claims |-> JList(<<ClaimA>>)]
    /\ results[2] = [evaluation_date |-> JStr("2020-01-01"), carrier |-> JStr("Y"),
                     claims |-> JList(<<ClaimB>>)]
    /\ merged.carrier = JStr("X")
    /\ merged.evaluation_date = JStr("2020-01-01")

RECURSIVE ConcatClaims(_)
\* the claims lists of the results rs, one after the other
ConcatClaims(rs) ==
    IF rs = <<>> THEN <<>> ELSE Head(rs)["claims"].v \o ConcatClaims(Tail(rs))

\* C7: the merged claims are the chunk results' claims lists one after the
\* other, in chunk order, nothing reordered, dropped or deduplicated.
MergeClaimsAppendOnly ==
    pc \in {"merge_loop", "merge_done"} => merged.claims = ConcatClaims(results)

\* three chunks, two of which returned the same claim: it is there twice
MergeClaimsAppendOnlyWitness ==
    /\ pc = "merge_done"
    /\ Len(results) = 3
    /\ results[1]["claims"].v = <<ClaimA>>
    /\ results[2]["claims"].v = <<ClaimB>>
    /\ results[3]["claims"].v = <<ClaimA>>
    /\ merged.claims = <<ClaimA, ClaimB, ClaimA>>

----------------------------------------------------------------------------
(* classify_lob and classify_lobs_multi                                    *)

LOBS == <<"AUTO", "GENERAL LIABILITY", "WC">>
LobSet == {LOBS[i] : i \in 1..Len(LOBS)}

\* the keyword lists of the heuristic fallbacks, in the order of LOBS
auto_hits ==
    <<" AUTO ", " AUTOMOBILE", " VEHICLE", " VIN ", " COLLISION", " COMPREHENSIVE",
      " LICENSE PLATE", " TOW ", " RENTAL", " SUBROGATION">>
gl_hits ==
    <<" GENERAL LIABILITY", " GL ", " PREMISES", " PRODUCTS LIABILITY", " CGL ",
      " COVERAGE A", " COVERAGE B", " COVERAGE C", " AGGREGATE LIMIT">>
wc_hits ==
    <<" WORKERS' COMP", " WORKERS COMP", " WC ", " TTD", " TPD", " INDEMNITY",
      " MEDICAL ONLY", " LOST TIME", " OSHA ", " EMPLOYEE ", " EMPLOYER ">>
Hits == <<auto_hits, gl_hits, wc_hits>>

\* the number of keywords of list hits that occur in t
Score(t, hits) == Cardinality({i \in 1..Len(hits) : Contains(t, hits[i])})

\* str(v) of a parsed JSON scalar
PyStr(j) ==
    CASE j.t = "str" -> j.v
      [] j.t = "null" -> "None"
      [] j.t = "num" -> IntStr(j.v)

\* A plausible slip: ties go to the last label and the zero check is lost.
BestLobLast(scores) ==
    LOBS[SetMax({i \in 1..3 : \A j \in 1..3 : scores[j] <= scores[i]})]

RECURSIVE CleanedNoDedup(_, _)
\* A plausible slip: "and s not in cleaned" is missing.
CleanedNoDedup(lobs, cleaned) ==
    IF lobs = <<>> THEN cleaned
    ELSE LET s == Upper(Strip(PyStr(Head(lobs))))
         IN  CleanedNoDedup(Tail(lobs), IF s \in LobSet THEN Append(cleaned, s) ELSE cleaned)

\* A plausible slip: the first label with any hit is taken, not the one
\* with the most hits.
BestLobFirstHit(scores) ==
    LET hit == {i \in 1..3 : scores[i] > 0}
    IN  IF hit = {} THEN "AUTO" ELSE LOBS[SetMin(hit)]

\* scores = {"AUTO": 0, ...} after the three counting loops over t = text.upper()
KeywordScores(txt) == [i \in 1..3 |-> Score(Upper(txt), Hits[i])]

\* best = max(scores, key=lambda x: scores[x]), the first label of the
\* highest score; return best if scores[best] > 0 else "AUTO"
BestLob(scores) ==
    LET best == SetMin({i \in 1..3 : \A j \in 1..3 : scores[j] <= scores[i]})
    IN  IF scores[best] > 0 THEN LOBS[best] ELSE "AUTO"

\* the heuristic fallback of classify_lob
KeywordLob(txt) == BestLob(KeywordScores(txt))

\* the label classify_lob takes from the oracle's answer, "" if none:
\* lob = (obj.get('lob') or '').strip().upper(), kept if it is in the set
\* (.strip() of a truthy value that is no str raises, which is caught)
OracleLob(resp) ==
    LET p == ParsedObject(resp)
        v == Get(p.obj, "lob", JNull)
        lob == IF Truthy(v) /\ v.t = "str" THEN Upper(Strip(v.v)) ELSE ""
    IN  IF p.ok /\ lob \in LobSet THEN lob ELSE ""

\* classify_lob, given the scores of its text
LobFrom(resp, scores) ==
    LET lob == OracleLob(resp) IN IF lob # "" THEN lob ELSE BestLob(scores)

classify_lob(resp, txt) == LobFrom(resp, KeywordScores(txt))

RECURSIVE CleanedLoop(_, _)
\* for v in lobs: s = str(v).strip().upper(); if s in {...} and s not in
\* cleaned: cleaned.append(s)
CleanedLoop(lobs, cleaned) ==
    IF lobs = <<>> THEN cleaned
    ELSE LET s == Upper(Strip(PyStr(Head(lobs))))
         IN  CleanedLoop(Tail(lobs),
                         IF s \in LobSet /\ \A i \in 1..Len(cleaned) : cleaned[i] # s
                         THEN Append(cleaned, s) ELSE cleaned)

\* cleaned = []; the loop over lobs
Cleaned(lobs, cleaned) == CleanedLoop(lobs, cleaned)

\* the list classify_lobs_multi takes from the oracle's answer, <<>> if
\* none: lobs = obj.get('lobs') or [], cleaned if it is a list
OracleLobs(resp) ==
    LET p == ParsedObject(resp)
        v == Get(p.obj, "lobs", JNull)
    IN  IF p.ok /\ Truthy(v) /\ v.t = "list" THEN Cleaned(v.v, <<>>) ELSE <<>>

\* the heuristic fallback of classify_lobs_multi: every LOB with a keyword
\* in the text, in the order AUTO, GENERAL LIABILITY, WC
FoundLobs(scores) ==
    SelectSeq(LOBS, LAMBDA l : \E i \in 1..3 : LOBS[i] = l /\ scores[i] > 0)
KeywordLobs(txt) == FoundLobs(KeywordScores(txt))

\* Inputs of the classifiers: texts of up to MaxWords words, separated by
\* a blank or a newline, with or without a leading and a trailing blank;
\* oracle answers of every kind, their lists of up to MaxLobs values.
MaxWords == 2
MaxLobs == 3
ClsWords == {"General Liability", "Workers Compensation", "Auto", "Report", "TTD Indemnity"}
RECURSIVE Join(_, _)
\* sep.join(q)
Join(q, sep) ==
    IF q = <<>> THEN ""
    ELSE IF Len(q) = 1 THEN q[1]
    ELSE q[1] \o sep \o Join(Tail(q), sep)
SeqsUpTo(S, n) == UNION {[1..k -> S] : k \in 0..n}
ClsTexts ==
    {lead \o Join(q, sep) \o trail :
        q \in SeqsUpTo(ClsWords, MaxWords), sep \in {" ", "\n"},
        lead \in {"", " "}, trail \in {"", " "}}
LobValues == {JStr("AUTO"), JStr(" wc "), JStr("Property")}
Answers(objs) ==
    {Raise, Content("no_braces", FALSE, <<>>), Content("bad_json", FALSE, <<>>)}
        \cup {Content("object", prose, o) : prose \in BOOLEAN, o \in objs}
SingleResponses ==
    Answers({<<>>, [lobs |-> JList(<<JStr("WC")>>)]}
            \cup {[lob |-> v] : v \in LobValues \cup {JStr("WC"), JStr(""), JNull, JNum(5)}})
MultiResponses ==
    Answers({<<>>, [lob |-> JStr("WC")], [lobs |-> JNull], [lobs |-> JStr("AUTO")],
             [lobs |-> JList(<<JNum(5), JNull, JStr("WC")>>)],
             [lobs |-> JList(<<JStr("general liability"), JStr("GL"), JStr("AUTO")>>)]}
            \cup {[lobs |-> JList(q)] : q \in SeqsUpTo(LobValues, MaxLobs)})

\* KeywordScores of every input text, computed once
ScoresOfText == [t \in ClsTexts |-> KeywordScores(t)]

\* classify_lobs_multi up to its return or its call of classify_lob
MultiCall ==
    /\ pc = "multi_call"
    /\ \E found \in {FoundLobs(ScoresOfText[text])}, resp \in MultiResponses :
          \E cleaned \in {OracleLobs(resp)} :
             /\ resp_multi' = resp
             /\ IF cleaned # <<>>
                THEN lobs_out' = cleaned /\ pc' = "multi_done"
                ELSE IF found # <<>>
                THEN lobs_out' = found /\ pc' = "multi_done"
                ELSE lobs_out' = lobs_out /\ pc' = "multi_single"
    /\ UNCHANGED <<text, resp_single, lob_out, exceptClass>>

\* single = classify_lob(...); return [single] if single else ["AUTO"]
MultiSingle ==
    /\ pc = "multi_single"
    /\ \E scores \in {ScoresOfText[text]}, resp \in SingleResponses :
          \E single \in {LobFrom(resp, scores)} :
             /\ resp_single' = resp
             /\ lob_out' = single
             /\ lobs_out' = IF single # "" THEN <<single>> ELSE <<"AUTO">>
    /\ pc' = "multi_done"
    /\ UNCHANGED <<text, resp_multi, exceptClass>>

\* classify_lob called on its own
LobCall ==
    /\ pc = "lob_call"
    /\ \E scores \in {ScoresOfText[text]}, resp \in SingleResponses :
          /\ resp_single' = resp
          /\ lob_out' = LobFrom(resp, scores)
    /\ pc' = "lob_done"
    /\ UNCHANGED <<text, resp_multi, lobs_out, exceptClass>>

InitClass ==
    /\ pc \in {"multi_call", "lob_call"}
    /\ text \in ClsTexts
    /\ ChunkIdle /\ MergeIdle /\ ClassIdle /\ HeurIdle /\ MoneyIdle
    /\ RestIdle

NextClass == MultiCall \/ MultiSingle \/ LobCall

SpecClass == InitClass /\ [][NextClass]_vars

\* the position of the first x in seq (0 if there is none)
FirstPos(seq, x) ==
    LET hits == {i \in 1..Len(seq) : seq[i] = x} IN IF hits = {} THEN 0 ELSE SetMin(hits)

\* the values of the oracle's lobs list as the code compares them
NormLobs(resp) ==
    LET l == resp.obj["lobs"].v IN [i \in 1..Len(l) |-> Upper(Strip(PyStr(l[i])))]

\* the text has no keyword of any of the three lists
NoKeyword(txt) == \A i \in 1..3 : ScoresOfText[txt][i] = 0

\* C3: whatever the oracle answers, classify_lobs_multi returns a non-empty
\* list of distinct labels of {AUTO, GENERAL LIABILITY, WC}; labels taken
\* from the oracle's list stand in the order of their first occurrence in
\* it, and none of its in-set labels is missing.
MultiWellFormed ==
    pc = "multi_done" =>
        /\ lobs_out # <<>>
        /\ \A i \in 1..Len(lobs_out) : lobs_out[i] \in LobSet
        /\ \A i, j \in 1..Len(lobs_out) : i # j => lobs_out[i] # lobs_out[j]
        /\ OracleLobs(resp_multi) # <<>> =>
              /\ \A i, j \in 1..Len(lobs_out) :
                    i < j => /\ FirstPos(NormLobs(resp_multi), lobs_out[i]) > 0
                             /\ FirstPos(NormLobs(resp_multi), lobs_out[i])
                                  < FirstPos(NormLobs(resp_multi), lobs_out[j])
              /\ \A l \in LobSet :
                    FirstPos(NormLobs(resp_multi), l) > 0 => FirstPos(lobs_out, l) > 0

\* an oracle list with a repeated label, an out-of-set one and prose around
\* it, returned deduplicated in the oracle's order
MultiWellFormedWitness ==
    /\ pc = "multi_done"
    /\ resp_multi.kind = "object"
    /\ "lobs" \in DOMAIN resp_multi.obj
    /\ resp_multi.obj["lobs"] = JList(<<JStr(" wc "), JStr("AUTO"), JStr(" wc ")>>)
    /\ lobs_out = <<"WC", "AUTO">>

\* C4: when the oracle gives no usable label on the multi-label call and on
\* the single-label call and the text has no keyword, classify_lobs_multi
\* returns ["AUTO"] and classify_lob returns "AUTO".
DefaultOnTotalFailure ==
    /\ (/\ pc = "multi_done"
        /\ OracleLobs(resp_multi) = <<>>
        /\ OracleLob(resp_single) = ""
        /\ NoKeyword(text)) => lobs_out = <<"AUTO">>
    /\ (/\ pc \in {"multi_done", "lob_done"}
        /\ resp_single # NoResp
        /\ OracleLob(resp_single) = ""
        /\ NoKeyword(text)) => lob_out = "AUTO"

\* a raising multi-label call, then a single-label answer with an out-of-set
\* label, on a text of words none of which is a keyword
DefaultOnTotalFailureWitness ==
    /\ pc = "multi_done"
    /\ resp_multi.kind = "raise"
    /\ resp_single.kind = "object"
    /\ OracleLob(resp_single) = ""
    /\ Len(text) > 1
    /\ NoKeyword(text)
    /\ lobs_out = <<"AUTO">>
    /\ lob_out = "AUTO"

\* C5: with a failing oracle a text that contains the phrases "General
\* Liability" and "Workers Compensation" and no AUTO keyword is classified
\* as ["GENERAL LIABILITY", "WC"]; and the fallback list holds exactly the
\* LOBs whose keyword list matches, in the order AUTO, GENERAL LIABILITY, WC.
KeywordFallbackBothPhrases ==
    (/\ pc = "multi_done"
     /\ OracleLobs(resp_multi) = <<>>
     /\ OracleLob(resp_single) = "") =>
        /\ (/\ Contains(text, "General Liability")
            /\ Contains(text, "Workers Compensation")
            /\ ScoresOfText[text][1] = 0) =>
                lobs_out = <<"GENERAL LIABILITY", "WC">>
        /\ ~NoKeyword(text) =>
                lobs_out = SelectSeq(LOBS, LAMBDA l :
                              \E i \in 1..3 : LOBS[i] = l /\ ScoresOfText[text][i] > 0)

----------------------------------------------------------------------------
(* _parse_money                                                            *)

\* s[i:i+1]: the character at i, "" outside the string
At(s, i) == IF 0 <= i /\ i < Len(s) THEN CharAt(s, i) ELSE ""

DigitChars == {CharAt(Digits, i) : i \in 0..9}

RECURSIVE DigitRun(_, _, _)
\* \d{0,cap} at p, greedy: the number of digits taken
DigitRun(s, p, cap) ==
    IF cap = 0 \/ At(s, p) \notin DigitChars THEN 0
    ELSE 1 + DigitRun(s, p + 1, cap - 1)

RECURSIVE GroupsEnd(_, _)
\* (?:,\d{3})* at p, greedy: the end of the last group taken
GroupsEnd(s, p) ==
    IF At(s, p) = "," /\ DigitRun(s, p + 1, 3) = 3 THEN GroupsEnd(s, p + 4) ELSE p

\* (?:\.\d+)? at p, greedy: the end of the fraction, p if there is none
FracEnd(s, p) ==
    LET d == DigitRun(s, p + 1, Len(s))
    IN  IF At(s, p) = "." /\ d > 0 THEN p + 1 + d ELSE p

\* [-$]? at p followed by a digit: where the digits start, -1 if neither
\* with nor without the sign a digit comes next
DigitsStart(s, p) ==
    IF At(s, p) \in {"-", "$"} /\ At(s, p + 1) \in DigitChars THEN p + 1
    ELSE IF At(s, p) \in DigitChars THEN p
    ELSE -1

\* [-$]?\d{1,3}(?:,\d{3})*(?:\.\d+)? at p: the end of the match, -1 if none
Alt1End(s, p) ==
    LET q == DigitsStart(s, p)
    IN  IF q = -1 THEN -1 ELSE FracEnd(s, GroupsEnd(s, q + DigitRun(s, q, 3)))

\* [-$]?\d+(?:\.\d+)? at p: the end of the match, -1 if none
Alt2End(s, p) ==
    LET q == DigitsStart(s, p)
    IN  IF q = -1 THEN -1 ELSE FracEnd(s, q + DigitRun(s, q, Len(s)))

\* the alternation at p: the first alternative that matches wins
MoneyMatchEnd(s, p) == IF Alt1End(s, p) # -1 THEN Alt1End(s, p) ELSE Alt2End(s, p)

\* A plausible slip: the thousands group written as a capturing group,
\* (,\d{3})*, so that findall returns that group's last repetition.
MoneyFirstGroup(s) ==
    LET hits == {p \in 0..(Len(s) - 1) : MoneyMatchEnd(s, p) # -1}
        q == DigitsStart(s, SetMin(hits))
        d == q + DigitRun(s, q, 3)
        g == GroupsEnd(s, d)
    IN  IF hits = {} THEN <<>>
        ELSE IF g > d THEN <<Slice(s, g - 4, g)>> ELSE <<"">>

\* m[:1] of m = re.findall(..., s): the leftmost match, if any
MoneyFirst(s) ==
    LET hits == {p \in 0..(Len(s) - 1) : MoneyMatchEnd(s, p) # -1}
    IN  IF hits = {} THEN <<>>
        ELSE <<Slice(s, SetMin(hits), MoneyMatchEnd(s, SetMin(hits)))>>

\* _parse_money of a str
ParseMoneyStr(s) ==
    LET m == MoneyFirst(s)
    IN  IF m # <<>> THEN m[1] ELSE Strip(s)

\* _parse_money(value), value None or a str
_parse_money(v) == IF v = JNull THEN "" ELSE ParseMoneyStr(PyStr(v))

\* Inputs: None and the strings of at most MaxMoneyToks pieces
MaxMoneyToks == 3
MoneyToks == {"$", "-", "1", "23", "456", "7890", ",", ".", " ", "a", ",234", ".56"}
MoneyStrings == {Concat(q) : q \in SeqsUpTo(MoneyToks, MaxMoneyToks)}
MoneyValues == {JNull} \cup {JStr(s) : s \in MoneyStrings}

\* _parse_money(value)
MoneyCall ==
    /\ pc = "money_call"
    /\ money_out' = <<_parse_money(value)>>
    /\ pc' = "money_again"
    /\ UNCHANGED <<text, value, exceptMoney>>

\* _parse_money of the string the first call returned
MoneyAgain ==
    /\ pc = "money_again"
    /\ money_out' = Append(money_out, _parse_money(JStr(money_out[1])))
    /\ pc' = "money_done"
    /\ UNCHANGED <<text, value, exceptMoney>>

InitMoney ==
    /\ pc = "money_call"
    /\ text = ""
    /\ value \in MoneyValues
    /\ money_out = <<>>
    /\ ChunkIdle /\ MergeIdle /\ ClassIdle /\ HeurIdle
    /\ RestIdle

NextMoney == MoneyCall \/ MoneyAgain

SpecMoney == InitMoney /\ [][NextMoney]_vars

\* C10: normalizing a normalized value changes nothing, whatever the input
\* token was, and "1,234.56" is returned as it is.
MoneyIdempotent ==
    /\ pc = "money_done" => money_out[2] = money_out[1]
    /\ (pc # "money_call" /\ value = JStr("1,234.56")) => money_out[1] = "1,234.56"

\* the value of the claim has gone through both passes
MoneyIdempotentWitness ==
    /\ pc = "money_done"
    /\ value = JStr("1,234.56")
    /\ money_out = <<"1,234.56", "1,234.56">>

----------------------------------------------------------------------------
(* Regular-expression pieces shared by the carrier, the evaluation-date    *)
(* and the row patterns of the heuristic extractor.                        *)

LetterChars == {CharAt(LowerLetters, i) : i \in 0..25} \cup {CharAt(UpperLetters, i) : i \in 0..25}
\* \w
WordChars == LetterChars \cup DigitChars \cup {"_"}
\* [A-Za-z0-9 &'.\-/]
CarrierChars == LetterChars \cup DigitChars \cup {" ", "&", "'", ".", "-", "/"}

\* \b at p: exactly one of the characters before and at p is a word character
IsBoundary(s, p) == (At(s, p - 1) \in WordChars) # (At(s, p) \in WordChars)

RECURSIVE RunEnd(_, _, _)
\* [C]* at p, greedy: the first position from p on whose character is not in C
RunEnd(s, p, C) == IF At(s, p) \in C THEN RunEnd(s, p + 1, C) ELSE p

\* \s* at p, greedy
SkipWs(s, p) == RunEnd(s, p, Whitespace)

\* the literal lit at p of the lower-cased text (re.IGNORECASE)
StartsAt(low, p, lit) == Slice(low, p, p + Len(lit)) = lit

RECURSIVE PiecesEnd(_, _, _)
\* lit1\s*lit2\s*...\s*litn at p: the end of the match, -1 if none
PiecesEnd(low, p, pieces) ==
    IF ~StartsAt(low, p, pieces[1]) THEN -1
    ELSE IF Len(pieces) = 1 THEN p + Len(pieces[1])
    ELSE PiecesEnd(low, SkipWs(low, p + Len(pieces[1])), Tail(pieces))

\* \s*[:\-]\s*([A-Za-z0-9 &'.\-/]+) at p: <<start, end>> of group 1, <<>>
\* if no match.  When no character of the class follows the blanks, the
\* second \s* gives back up to its last space, which the class then takes.
ColonGroup(s, p) ==
    LET q == SkipWs(s, p)
        w == SkipWs(s, q + 1)
        spaces == {k \in (q + 1)..(w - 1) : At(s, k) = " "}
    IN  IF At(s, q) \notin {":", "-"} THEN <<>>
        ELSE IF At(s, w) \in CarrierChars THEN <<w, RunEnd(s, w, CarrierChars)>>
        ELSE IF spaces # {} THEN <<SetMax(spaces), SetMax(spaces) + 1>>
        ELSE <<>>

\* the first of the alternatives keys (each a list of pieces) that, at p,
\* is followed by \s*[:\-]\s*(...): the span of the group, <<>> if none
RECURSIVE KeyedAt(_, _, _, _)
KeyedAt(s, low, p, keys) ==
    IF keys = <<>> THEN <<>>
    ELSE LET e == PiecesEnd(low, p, Head(keys))
             g == IF e = -1 THEN <<>> ELSE ColonGroup(s, e)
         IN  IF g # <<>> THEN g ELSE KeyedAt(s, low, p, Tail(keys))

\* re.search(r"\b(?:keys)\s*[:\-]\s*([...]+)", s, re.IGNORECASE):
\* <<m.group(1)>> of the leftmost match, <<>> if none
KeyedSearch(s, low, keys) ==
    LET hits == {p \in 0..(Len(s) - 1) :
                    IsBoundary(s, p) /\ KeyedAt(s, low, p, keys) # <<>>}
        g == KeyedAt(s, low, SetMin(hits), keys)
    IN  IF hits = {} THEN <<>> ELSE <<Slice(s, g[1], g[2])>>

\* (?:Insurance|Ins|Corp|Corporation|Company|Co|LLC|Inc)
CarrierSuffixes ==
    <<"insurance", "ins", "corp", "corporation", "company", "co", "llc", "inc">>

\* (?:Insurance|...|Inc)\b at j: the end of the first alternative that
\* matches and is followed by a word boundary, -1 if none
SuffixEnd(s, low, j) ==
    LET ok == {i \in 1..Len(CarrierSuffixes) :
                  /\ StartsAt(low, j, CarrierSuffixes[i])
                  /\ IsBoundary(s, j + Len(CarrierSuffixes[i]))}
    IN  IF ok = {} THEN -1 ELSE j + Len(CarrierSuffixes[SetMin(ok)])

\* re.search(r"\b([A-Z][...]+(?:Insurance|...|Inc))\b", s, re.IGNORECASE):
\* the leftmost letter at a word boundary from which a run of class
\* characters reaches a suffix; the greedy run takes the last such suffix
NamedSearch(s, low) ==
    LET sufs == {j \in 2..(Len(s) - 1) : SuffixEnd(s, low, j) # -1}
        Reach(p) == {j \in sufs : p + 2 <= j /\ j <= RunEnd(s, p + 1, CarrierChars)}
        hits == {p \in 0..(Len(s) - 1) :
                    At(s, p) \in LetterChars /\ IsBoundary(s, p) /\ Reach(p) # {}}
    IN  IF sufs = {} \/ hits = {} THEN <<>>
        ELSE <<Slice(s, SetMin(hits), SuffixEnd(s, low, SetMax(Reach(SetMin(hits)))))>>

\* patterns of _extract_carrier_from_text, in order: m.group(1) of each
CarrierMatches(s, low) ==
    << KeyedSearch(s, low, << <<"carrier">>, <<"company">>, <<"insurer">>, <<"provider">> >>),
       NamedSearch(s, low),
       KeyedSearch(s, low, << <<"policy", "holder">>, <<"insured">> >>) >>

\* _extract_carrier_from_text(text): the stripped group of the first
\* pattern that matches with a candidate longer than 2
_extract_carrier_from_text(s) ==
    LET ms == CarrierMatches(s, Lower(s))
        ok == {i \in 1..3 : ms[i] # <<>> /\ Len(Strip(ms[i][1])) > 2}
    IN  IF ok = {} THEN "" ELSE Strip(ms[SetMin(ok)][1])

----------------------------------------------------------------------------
(* heuristic_extract_wc                                                    *)

\* ([0-9]{1,2}[\-/][0-9]{1,2}[\-/][0-9]{2,4}) at p: the end, -1 if no match
NumericDateEnd(s, p) ==
    LET d1 == DigitRun(s, p, 2)
        p2 == p + d1 + 1
        d2 == DigitRun(s, p2, 2)
        p3 == p2 + d2 + 1
        d3 == DigitRun(s, p3, 4)
    IN  IF /\ d1 >= 1 /\ At(s, p + d1) \in {"-", "/"}
           /\ d2 >= 1 /\ At(s, p2 + d2) \in {"-", "/"}
           /\ d3 >= 2
        THEN p3 + d3 ELSE -1

\* ([A-Za-z]{3,9}\s+\d{1,2},\s*\d{4}) at p: the end, -1 if no match
LongDateEnd(s, p) ==
    LET e1 == RunEnd(s, p, LetterChars)
        p2 == SkipWs(s, e1)
        d2 == DigitRun(s, p2, 2)
        p3 == SkipWs(s, p2 + d2 + 1)
    IN  IF /\ e1 - p >= 3 /\ e1 - p <= 9
           /\ p2 > e1
           /\ d2 >= 1 /\ At(s, p2 + d2) = ","
           /\ DigitRun(s, p3, 4) = 4
        THEN p3 + 4 ELSE -1

\* pieces\s*[:\-]\s*(date) at p: <<start, end>> of group 1, <<>> if no match
DateAt(s, low, p, pieces, numeric) ==
    LET e == PiecesEnd(low, p, pieces)
        q == SkipWs(s, e)
        w == SkipWs(s, q + 1)
        end == IF numeric THEN NumericDateEnd(s, w) ELSE LongDateEnd(s, w)
    IN  IF e = -1 \/ At(s, q) \notin {":", "-"} \/ end = -1 THEN <<>> ELSE <<w, end>>

\* re.search(pat, text, flags=re.IGNORECASE) for a pattern of date_patterns:
\* <<m.group(1)>> of the leftmost match, <<>> if none
DateSearch(s, low, pieces, numeric) ==
    LET hits == {p \in 0..(Len(s) - 1) : DateAt(s, low, p, pieces, numeric) # <<>>}
        g == DateAt(s, low, SetMin(hits), pieces, numeric)
    IN  IF hits = {} THEN <<>> ELSE <<Slice(s, g[1], g[2])>>

\* the loop over date_patterns: the stripped group of the first pattern
\* that matches, "" if none does
EvaluationDate(s, low) ==
    LET m1 == DateSearch(s, low, <<"evaluation", "date">>, TRUE)
        m2 == DateSearch(s, low, <<"as", "of", "date">>, FALSE)
    IN  IF m1 # <<>> THEN Strip(m1[1])
        ELSE IF m2 # <<>> THEN Strip(m2[1])
        ELSE ""

RECURSIVE SplitLines(_)
\* s.splitlines(), the line breaks being \n, \r and \r\n
SplitLines(s) ==
    LET brk == {i \in 0..(Len(s) - 1) : At(s, i) \in {"\n", "\r"}}
        i == SetMin(brk)
        j == IF At(s, i) = "\r" /\ At(s, i + 1) = "\n" THEN i + 2 ELSE i + 1
    IN  IF s = "" THEN <<>>
        ELSE IF brk = {} THEN <<s>>
        ELSE <<Slice(s, 0, i)>> \o SplitLines(Slice(s, j, Len(s)))

RECURSIVE StripAll(_)
\* [p.strip() for p in q if p.strip()]
StripAll(q) ==
    IF q = <<>> THEN <<>>
    ELSE IF Strip(Head(q)) = "" THEN StripAll(Tail(q))
    ELSE <<Strip(Head(q))>> \o StripAll(Tail(q))

\* lines = [ln.strip() for ln in text.splitlines() if ln.strip()]
Lines(s) == StripAll(SplitLines(s))

header_map ==
    [claim |-> <<"claim number", "claim no", "claim #", "claim id">>,
     loss_date |-> <<"loss date", "date of loss", "accident date">>,
     indemnity_paid |-> <<"indemnity paid", "indemnity paid loss", "ind paid">>,
     medical_paid |-> <<"medical paid", "medical paid loss", "med paid">>,
     indemnity_reserve |-> <<"indemnity reserve", "ind reserve">>,
     medical_reserve |-> <<"medical reserve", "med reserve">>,
     alae |-> <<"alae", "allocated loss adjustment expense", "expense">>]

\* any(k in t for k in header_map[name])
AnyKey(t, name) == \E i \in 1..Len(header_map[name]) : Contains(t, header_map[name][i])

\* hits of a line: the number of column groups with a key in ln.lower()
HeaderHits(ln) ==
    LET lower == Lower(ln)
    IN  Cardinality({name \in DOMAIN header_map : AnyKey(lower, name)})

\* A plausible slip: the loop has no break, so the last line with at least
\* two column groups wins.
HeaderIdxLast(lines) ==
    LET hs == {i \in 0..(Len(lines) - 1) : HeaderHits(lines[i + 1]) >= 2}
    IN  IF hs = {} THEN -1 ELSE SetMax(hs)

\* header_idx: the index of the first line with at least two column groups
HeaderIdx(lines) ==
    LET hs == {i \in 0..(Len(lines) - 1) : HeaderHits(lines[i + 1]) >= 2}
    IN  IF hs = {} THEN -1 ELSE SetMin(hs)

\* \s{2,}|\t|\| at p: the end of the delimiter, -1 if none starts at p
DelimEnd(s, p) ==
    IF At(s, p) \in Whitespace /\ At(s, p + 1) \in Whitespace THEN SkipWs(s, p)
    ELSE IF At(s, p) \in {"\t", "|"} THEN p + 1
    ELSE -1

RECURSIVE SplitRow(_)
\* re.split(r"\s{2,}|\t|\|", ln)
SplitRow(s) ==
    LET ds == {p \in 0..(Len(s) - 1) : DelimEnd(s, p) # -1}
        p == SetMin(ds)
    IN  IF ds = {} THEN <<s>>
        ELSE <<Slice(s, 0, p)>> \o SplitRow(Slice(s, DelimEnd(s, p), Len(s)))

\* parts = [p.strip() for p in re.split(...) if p.strip()]
Parts(ln) == StripAll(SplitRow(ln))

\* re.search(r"\b\d{5,}\b|[A-Za-z]\d{4,}", p)
ClaimToken(p) ==
    \E i \in 0..(Len(p) - 1) :
       \/ /\ At(p, i) \in DigitChars
          /\ At(p, i - 1) \notin WordChars
          /\ DigitRun(p, i, Len(p)) >= 5
          /\ At(p, i + DigitRun(p, i, Len(p))) \notin WordChars
       \/ /\ At(p, i) \in LetterChars
          /\ DigitRun(p, i + 1, 4) = 4

\* re.search(r"\b\d{1,2}[\-/]\d{1,2}[\-/]\d{2,4}\b", p)
DateToken(p) ==
    \E i \in 0..(Len(p) - 1) :
       LET d1 == DigitRun(p, i, 3)
           p2 == i + d1 + 1
           d2 == DigitRun(p, p2, 3)
           p3 == p2 + d2 + 1
           d3 == DigitRun(p, p3, 5)
       IN  /\ At(p, i - 1) \notin WordChars
           /\ d1 \in 1..2 /\ At(p, i + d1) \in {"-", "/"}
           /\ d2 \in 1..2 /\ At(p, p2 + d2) \in {"-", "/"}
           /\ d3 \in 2..4 /\ At(p, p3 + d3) \notin WordChars

\* row = {'claim_number': '', ...}
EmptyRow ==
    [claim_number |-> "", loss_date |-> "", Indemnity_paid_loss |-> "",
     Medical_paid_loss |-> "", Indemnity_reserve |-> "", Medical_reserve |-> "",
     ALAE |-> ""]

\* the if/elif chain for one token p
Assign(row, p) ==
    LET pl == Lower(p)
        money == _parse_money(JStr(p))
    IN  IF row.claim_number = "" /\ ClaimToken(p) THEN [row EXCEPT !.claim_number = p]
        ELSE IF row.loss_date = "" /\ DateToken(p) THEN [row EXCEPT !.loss_date = p]
        ELSE IF AnyKey(pl, "indemnity_paid") \/ Contains(pl, "indemnity")
             THEN [row EXCEPT !.Indemnity_paid_loss = money]
        ELSE IF AnyKey(pl, "medical_paid") \/ Contains(pl, "medical")
             THEN [row EXCEPT !.Medical_paid_loss = money]
        ELSE IF AnyKey(pl, "indemnity_reserve") THEN [row EXCEPT !.Indemnity_reserve = money]
        ELSE IF AnyKey(pl, "medical_reserve") THEN [row EXCEPT !.Medical_reserve = money]
        ELSE IF Contains(pl, "alae") \/ AnyKey(pl, "alae") THEN [row EXCEPT !.ALAE = money]
        ELSE row

RECURSIVE AssignAll(_, _)
\* for p in parts: ...
AssignAll(row, ps) == IF ps = <<>> THEN row ELSE AssignAll(Assign(row, Head(ps)), Tail(ps))

\* the row of a line with at least 3 parts
RowOf(ln) == AssignAll(EmptyRow, Parts(ln))

\* A plausible slip: the claim-number test before claims.append is lost.
KeepRowAlways(claims, row) == Append(claims, row)

\* if row['claim_number']: claims.append(row)
KeepRow(claims, row) == IF row.claim_number # "" THEN Append(claims, row) ELSE claims

RECURSIVE ParseRows(_, _)
\* for ln in lines[header_idx+1:]: ...
ParseRows(claims, lns) ==
    IF lns = <<>> THEN claims
    ELSE IF Len(Parts(Head(lns))) < 3 THEN ParseRows(claims, Tail(lns))
    ELSE ParseRows(KeepRow(claims, RowOf(Head(lns))), Tail(lns))

\* lines[header_idx+1:], nothing when there is no header
DataLines(lines) ==
    IF HeaderIdx(lines) = -1 THEN <<>> ELSE SubSeq(lines, HeaderIdx(lines) + 2, Len(lines))

\* heuristic_extract_wc(text)
heuristic_extract_wc(s) ==
    [evaluation_date |-> EvaluationDate(s, Lower(s)),
     carrier |-> _extract_carrier_from_text(s),
     claims |-> ParseRows(<<>>, DataLines(Lines(s)))]

\* Inputs: an optional line before the table, a first table line (two of
\* them headers) and at most MaxRows data lines.
MaxRows == 2
HeurPreambles ==
    {"", "Evaluation Date: 12/31/2021", "As of Date - Jan 5, 2022",
     "Carrier: Acme Mutual", "Zenith Insurance Co loss run",
     "00099999    05/06/2020    Indemnity 40"}
HeurHeaders ==
    {"Claim Number    Loss Date    Indemnity Paid    Medical Paid",
     "Claim No|Loss Date|ALAE",
     "Loss Run Report"}
HeurRows ==
    {"00012345    01/02/2021    $1,200.00    $300.50",
     "01/02/2021    Indemnity Paid $1,200.00    Medical Paid $300.50",
     "  A1234|3/4/21|Ind Reserve 75|ALAE 20 ",
     "00012345    01/02/2021",
     "X12345    01/02/2021    indemnity paid 100    indemnity reserve 50",
     "W98765\t12-31-20\tMed Paid 10.5\tMed Paid 9\tMedical Reserve n/a"}
HeurTexts ==
    {Join((IF pre = "" THEN <<>> ELSE <<pre>>) \o <<hdr>> \o rows, "\n") :
        pre \in HeurPreambles, hdr \in HeurHeaders, rows \in SeqsUpTo(HeurRows, MaxRows)}

\* heuristic_extract_wc(text)
HeurCall ==
    /\ pc = "heur_call"
    /\ heur_out' = heuristic_extract_wc(text)
    /\ pc' = "heur_done"
    /\ UNCHANGED <<text, exceptHeur>>

InitHeur ==
    /\ pc = "heur_call"
    /\ text \in HeurTexts
    /\ heur_out = <<>>
    /\ ChunkIdle /\ MergeIdle /\ ClassIdle /\ MoneyIdle
    /\ RestIdle

NextHeur == HeurCall

SpecHeur == InitHeur /\ [][NextHeur]_vars

\* the tokens of a line that match the claim-number pattern
ClaimTokens(ln) == SelectSeq(Parts(ln), ClaimToken)

RECURSIVE ClaimNumbers(_)
\* the first claim-number token of each line that has at least 3 tokens
\* and a claim-number token
ClaimNumbers(lns) ==
    IF lns = <<>> THEN <<>>
    ELSE IF Len(Parts(Head(lns))) >= 3 /\ ClaimTokens(Head(lns)) # <<>>
         THEN <<ClaimTokens(Head(lns))[1]>> \o ClaimNumbers(Tail(lns))
    ELSE ClaimNumbers(Tail(lns))

\* C8: every returned record has a non-empty claim_number, and the records
\* are those of the data lines that have a claim-number token: a line
\* without one gives no record, whatever else was recognised in it.
HeurDropRule ==
    pc = "heur_done" =>
        /\ \A i \in 1..Len(heur_out.claims) : heur_out.claims[i].claim_number # ""
        /\ [i \in 1..Len(heur_out.claims) |-> heur_out.claims[i].claim_number]
              = ClaimNumbers(DataLines(Lines(text)))

\* a data line with a date and a paid amount but no claim number was
\* dropped, next to a line that was kept
HeurDropRuleWitness ==
    /\ pc = "heur_done"
    /\ Len(heur_out.claims) = 1
    /\ \E i \in 1..Len(DataLines(Lines(text))) :
          LET row == RowOf(DataLines(Lines(text))[i])
          IN  /\ Len(Parts(DataLines(Lines(text))[i])) >= 3
              /\ row.claim_number = ""
              /\ row.loss_date # ""
              /\ row.Indemnity_paid_loss # ""

ScenarioText ==
    "Claim Number    Loss Date    Indemnity Paid    Medical Paid\n00012345    01/02/2021    $1,200.00    $300.50"

\* C9: the table of the scenario gives one claim, whose four fields are
\* the four tokens of the row, the amounts without the currency sign.
HeurTableScenario ==
    (pc = "heur_done" /\ text = ScenarioText) =>
        /\ Len(heur_out.claims) = 1
        /\ heur_out.claims[1].claim_number = "00012345"
        /\ heur_out.claims[1].loss_date = "01/02/2021"
        /\ heur_out.claims[1].Indemnity_paid_loss = "1,200.00"
        /\ heur_out.claims[1].Medical_paid_loss = "300.50"

\* the positions (from 1) of the lines that name at least 2 of the 7
\* column groups
Qualifying(lines) == {i \in 1..Len(lines) : HeaderHits(lines[i]) >= 2}

\* C25: the header is the first non-empty line with keywords of at least 2
\* of the 7 column groups; the claims are the records of the lines strictly
\* after it, and there are none when no line qualifies.
HeaderDetection ==
    pc = "heur_done" =>
        LET lines == Lines(text)
            q == Qualifying(lines)
        IN  /\ Cardinality(DOMAIN header_map) = 7
            /\ q = {} => heur_out.claims = <<>>
            /\ q # {} =>
                  \E h \in q :
                     /\ \A j \in q : h <= j
                     /\ heur_out.claims
                           = ParseRows(<<>>, SubSeq(lines, h + 1, Len(lines)))

\* a line with a claim number, a date and an amount stands before the
\* header and gave no record; a later line that itself names two column
\* groups is a data line and gave the only record
HeaderDetectionWitness ==
    /\ pc = "heur_done"
    /\ LET lines == Lines(text)
       IN  /\ Len(lines) = 3
           /\ Qualifying(lines) = {2, 3}
           /\ Len(Parts(lines[1])) >= 3
           /\ RowOf(lines[1]).claim_number # ""
           /\ Len(heur_out.claims) = 1
           /\ heur_out.claims[1] = RowOf(lines[3])

\* first match wins: the chain for one token p where every branch also
\* asks that its slot is still empty
StatedAssign(row, p) ==
    LET pl == Lower(p)
        money == _parse_money(JStr(p))
    IN  IF row.claim_number = "" /\ ClaimToken(p) THEN [row EXCEPT !.claim_number = p]
        ELSE IF row.loss_date = "" /\ DateToken(p) THEN [row EXCEPT !.loss_date = p]
        ELSE IF row.Indemnity_paid_loss = ""
                  /\ (AnyKey(pl, "indemnity_paid") \/ Contains(pl, "indemnity"))
             THEN [row EXCEPT !.Indemnity_paid_loss = money]
        ELSE IF row.Medical_paid_loss = ""
                  /\ (AnyKey(pl, "medical_paid") \/ Contains(pl, "medical"))
             THEN [row EXCEPT !.Medical_paid_loss = money]
        ELSE IF row.Indemnity_reserve = "" /\ AnyKey(pl, "indemnity_reserve")
             THEN [row EXCEPT !.Indemnity_reserve = money]
        ELSE IF row.Medical_reserve = "" /\ AnyKey(pl, "medical_reserve")
             THEN [row EXCEPT !.Medical_reserve = money]
        ELSE IF row.ALAE = "" /\ (Contains(pl, "alae") \/ AnyKey(pl, "alae"))
             THEN [row EXCEPT !.ALAE = money]
        ELSE row

RECURSIVE StatedAssignAll(_, _)
StatedAssignAll(row, ps) ==
    IF ps = <<>> THEN row ELSE StatedAssignAll(StatedAssign(row, Head(ps)), Tail(ps))

\* the data lines that give a record
KeptLines(lns) ==
    SelectSeq(lns, LAMBDA ln : Len(Parts(ln)) >= 3 /\ ClaimTokens(ln) # <<>>)

\* C26: in every record each slot holds the value of the first token that
\* matched it: a filled slot is not overwritten by a later token of the
\* row, so 'indemnity paid 100' then 'indemnity reserve 50' leave 100 in
\* Indemnity_paid_loss and 50 in Indemnity_reserve.
GreedyAssignment ==
    pc = "heur_done" =>
        LET kept == KeptLines(DataLines(Lines(text)))
        IN  /\ Len(heur_out.claims) = Len(kept)
            /\ \A i \in 1..Len(kept) :
                  heur_out.claims[i] = StatedAssignAll(EmptyRow, Parts(kept[i]))

----------------------------------------------------------------------------
(* extract_fields_llm on its own                                           *)

\* Oracle answers to one extraction request: those of the chunked
\* extraction, the same objects inside prose, and objects whose claims
\* value is null, a dict, or a list of things that are not objects.
ExtractAnswers ==
    ExtractResponses
        \cup {Content("object", TRUE, o) : o \in ExtractObjects}
        \cup {Content("object", FALSE, [claims |-> l]) :
                 l \in {JNull, JObj(<<>>), JList(<<JStr("oops"), JNum(7)>>)}}

\* extract_fields_llm(bedrock_client, model_id, text, lob)
ExtractCall ==
    /\ pc = "extract_call"
    /\ \E resp \in ExtractAnswers :
          /\ resp_extract' = resp
          /\ extract_out' = extract_fields_llm(resp)
    /\ pc' = "extract_done"
    /\ UNCHANGED <<text, exceptExtract>>

InitExtract ==
    /\ pc = "extract_call"
    /\ text \in {"", "x"}
    /\ ExtractIdle
    /\ ChunkIdle /\ MergeIdle /\ ClassIdle /\ HeurIdle /\ MoneyIdle
    /\ BatchIdle /\ WriteIdle /\ AppsIdle

NextExtract == ExtractCall

SpecExtract == InitExtract /\ [][NextExtract]_vars

\* the oracle answered with an object that has a list under 'claims'
Accepted(resp) ==
    /\ resp.kind = "object"
    /\ "claims" \in DOMAIN resp.obj
    /\ resp.obj["claims"].t = "list"

\* C11: the result is the oracle's object, with "" added for a missing
\* evaluation_date or carrier, exactly when the answer parses to an object
\* with a list under 'claims'; for every other answer (a raised call, no
\* JSON, an object without 'claims' or with a non-list there) it is the
\* zero-value result.  The call always returns a dict.
ExtractAcceptance ==
    pc = "extract_done" =>
        IF Accepted(resp_extract)
        THEN /\ DOMAIN extract_out = DOMAIN resp_extract.obj \cup {"evaluation_date", "carrier"}
             /\ \A k \in DOMAIN extract_out :
                   extract_out[k] = IF k \in DOMAIN resp_extract.obj
                                    THEN resp_extract.obj[k] ELSE JStr("")
        ELSE extract_out = ZeroResult

\* an accepted object, found inside prose, that had no carrier
ExtractAcceptanceWitness ==
    /\ pc = "extract_done"
    /\ Accepted(resp_extract)
    /\ resp_extract.prose
    /\ resp_extract.obj["claims"] = JList(<<ClaimA>>)
    /\ "carrier" \notin DOMAIN resp_extract.obj
    /\ extract_out["carrier"] = JStr("")
    /\ extract_out["claims"] = JList(<<ClaimA>>)

----------------------------------------------------------------------------
(* The strictness of the classifiers                                       *)

\* the answer is the bare JSON object {"lobs": [...]} with in-set labels only
StrictMulti(resp) ==
    /\ resp.kind = "object" /\ ~resp.prose
    /\ DOMAIN resp.obj = {"lobs"}
    /\ resp.obj["lobs"].t = "list" /\ resp.obj["lobs"].v # <<>>
    /\ \A i \in 1..Len(resp.obj["lobs"].v) :
          resp.obj["lobs"].v[i] \in {JStr(l) : l \in LobSet}

\* the answer is the bare JSON object {"lob": label} with an in-set label
StrictSingle(resp) ==
    /\ resp.kind = "object" /\ ~resp.prose
    /\ DOMAIN resp.obj = {"lob"}
    /\ resp.obj["lob"] \in {JStr(l) : l \in LobSet}

\* C19: an answer that deviates from the strict shape (prose around the
\* JSON, no 'lob'/'lobs' key, an out-of-set value, even one out-of-set entry
\* in the list) is not used: the keyword fallback's result is returned.
StrictClassification ==
    /\ (pc = "multi_done" /\ ~StrictMulti(resp_multi)) =>
          IF FoundLobs(ScoresOfText[text]) # <<>>
          THEN lobs_out = FoundLobs(ScoresOfText[text])
          ELSE resp_single # NoResp /\ lobs_out = <<lob_out>>
    /\ (pc \in {"multi_done", "lob_done"} /\ resp_single # NoResp
           /\ ~StrictSingle(resp_single)) =>
          lob_out = BestLob(ScoresOfText[text])

----------------------------------------------------------------------------
(* write_outputs                                                           *)

\* the keys of per_lob that write_outputs looks at, in its order
OutLobs == <<"AUTO", "GL", "WC">>
\* the file and the sheet of each
LobFile ==
    [AUTO |-> "auto/AUTO_consolidated.xlsx", GL |-> "GL/GL_consolidated.xlsx",
     WC |-> "WC/WC_consolidated.xlsx"]
LobSheet == [AUTO |-> "auto_claims", GL |-> "gl_claims", WC |-> "wc_claims"]

\* A plausible slip: "and not df.empty" is lost.
HasFrame(pl, k) == k \in DOMAIN pl

\* has_auto, has_gl, has_wc: df is not None and not df.empty, a frame
\* being the list of its rows
HasData(pl, k) == k \in DOMAIN pl /\ pl[k] # <<>>

\* write_outputs(per_lob, out_dir): the files written, each with its sheets
\* in order.  fails names the writes that raise, "result" for the combined
\* file; the exception is caught and the file is taken as not written.
write_outputs(pl, fails) ==
    LET has == SelectSeq(OutLobs, LAMBDA k : HasData(pl, k))
        own == {has[i] : i \in 1..Len(has)} \ fails
        combined == IF has # <<>> /\ "result" \notin fails THEN {"result.xlsx"} ELSE {}
    IN  [f \in {LobFile[k] : k \in own} \cup combined |->
            IF f = "result.xlsx" THEN [i \in 1..Len(has) |-> LobSheet[has[i]]]
            ELSE <<LobSheet[CHOOSE k \in own : LobFile[k] = f]>>]

\* Inputs: any of the three keys may be missing; a frame has at most
\* MaxGroupRows rows.
MaxGroupRows == 1
Frames == {[i \in 1..n |-> [claim_number |-> IntStr(i)]] : n \in 0..MaxGroupRows}
WriteInputs == UNION {[S -> Frames] : S \in SUBSET {"AUTO", "GL", "WC"}}
WriteFailures == SUBSET {"AUTO", "GL", "WC", "result"}

\* write_outputs(per_lob, out_dir)
WriteCall ==
    /\ pc = "write_call"
    /\ \E fails \in WriteFailures :
          written' = [files |-> write_outputs(per_lob, fails), failed |-> fails]
    /\ pc' = "write_done"
    /\ UNCHANGED <<text, per_lob, exceptWrite>>

InitWrite ==
    /\ pc = "write_call"
    /\ text = ""
    /\ per_lob \in WriteInputs
    /\ written = <<>>
    /\ ChunkIdle /\ MergeIdle /\ ClassIdle /\ HeurIdle /\ MoneyIdle
    /\ ExtractIdle /\ BatchIdle /\ AppsIdle

NextWrite == WriteCall

SpecWrite == InitWrite /\ [][NextWrite]_vars

\* the LOBs whose group has at least one row
NonEmptyGroups(pl) == {k \in {"AUTO", "GL", "WC"} : k \in DOMAIN pl /\ Len(pl[k]) >= 1}

----------------------------------------------------------------------------
(* _extract_carrier_from_filename                                          *)

\* s with every character of the set cs replaced by a blank
RECURSIVE Blanked(_, _)
Blanked(s, cs) ==
    IF Len(s) <= 1 THEN (IF s \in cs THEN " " ELSE s)
    ELSE Blanked(Slice(s, 0, Len(s) \div 2), cs) \o Blanked(Slice(s, Len(s) \div 2, Len(s)), cs)

\* Path(file_path).stem: the last component without its last suffix
Stem(file_path) ==
    LET name == Slice(file_path, RFind(file_path, "/", 0, Len(file_path)) + 1, Len(file_path))
        dot == RFind(name, ".", 0, Len(name))
    IN  IF 0 < dot /\ dot < Len(name) - 1 THEN Slice(name, 0, dot) ELSE name

RECURSIVE Split(_)
\* s.split()
Split(s) ==
    LET b == RunEnd(s, 0, Whitespace)
        ws == {i \in b..(Len(s) - 1) : At(s, i) \in Whitespace}
        e == IF ws = {} THEN Len(s) ELSE SetMin(ws)
    IN  IF b >= Len(s) THEN <<>>
        ELSE <<Slice(s, b, e)>> \o Split(Slice(s, e, Len(s)))

stop_words ==
    {"loss", "run", "report", "claims", "claim", "extract", "extracted", "output",
     "input", "file"}

RECURSIVE NameParts(_, _)
\* the loop over tokens: the tokens before the first stop word, at most 3
NameParts(tokens, name_parts) ==
    IF tokens = <<>> \/ Lower(Head(tokens)) \in stop_words THEN name_parts
    ELSE IF Len(name_parts) + 1 >= 3 THEN Append(name_parts, Head(tokens))
    ELSE NameParts(Tail(tokens), Append(name_parts, Head(tokens)))

\* _extract_carrier_from_filename(file_path)
_extract_carrier_from_filename(file_path) ==
    LET stem == Blanked(Stem(file_path), {"_", "-", "."})
        m == NamedSearch(stem, Lower(stem))
    IN  IF m # <<>> THEN Strip(m[1]) ELSE Join(NameParts(Split(stem), <<>>), " ")

----------------------------------------------------------------------------
(* load_aws_config_from_py, process_text_file and the loop body of main    *)

\* the attributes load_aws_config_from_py reads, under their cfg keys
ConfigKeys == {"access_key", "secret_key", "session_token", "region", "model_id"}

\* A plausible slip: the session token is taken as optional.
MissingButToken(c) == {k \in DOMAIN c \ {"session_token"} : ~Truthy(c[k])}

\* missing = [k for k, v in cfg.items() if not v]
Missing(c) == {k \in DOMAIN c : ~Truthy(c[k])}

\* load_aws_config_from_py(config_file): the cfg dict, <<>> for None.  The
\* file f may not exist, may raise when loaded, and defines each attribute
\* as a string or not at all (getattr then gives None).
load_aws_config_from_py(f) ==
    IF ~f.exists \/ ~f.loads \/ Missing(f.attrs) # {} THEN <<>> ELSE f.attrs

RECURSIVE MergeAll(_, _)
\* the loop of extract_fields_llm_chunked, resps[i] being the oracle's
\* answer to the request for the i-th chunk
MergeAll(m, resps) ==
    IF resps = <<>> THEN m
    ELSE MergeAll(MergeResult(m, extract_fields_llm(Head(resps))), Tail(resps))

\* extract_fields_llm_chunked(bedrock_client, model_id, text, lob)
extract_fields_llm_chunked(resps) ==
    MergeAll([evaluation_date |-> JStr(""), carrier |-> JStr(""), claims |-> <<>>], resps)

\* the number of chunks, hence of requests, of one chunked extraction
NumChunks(t) == Max(1, Len(_chunk_text_for_llm(t, DefaultMaxChars)))

\* a or b
Or(a, b) == IF Truthy(a) THEN a ELSE b

\* classify_lobs_multi(bedrock_client, model_id, text) for the oracle's
\* answers multi and single and the keyword scores of the text
classify_lobs_multi(multi, single, scores) ==
    IF OracleLobs(multi) # <<>> THEN OracleLobs(multi)
    ELSE IF FoundLobs(scores) # <<>> THEN FoundLobs(scores)
    ELSE <<LobFrom(single, scores)>>

\* the number of invoke_model calls classify_lobs_multi makes
ClassifyCalls(multi, scores) ==
    IF OracleLobs(multi) # <<>> \/ FoundLobs(scores) # <<>> THEN 1 ELSE 2

\* the heuristic result as a dict of the kind json.loads gives
HeurJson(h) ==
    [evaluation_date |-> JStr(h.evaluation_date), carrier |-> JStr(h.carrier),
     claims |-> [i \in 1..Len(h.claims) |->
                   JObj([k \in DOMAIN h.claims[i] |-> JStr(h.claims[i][k])])]]

\* A plausible slip: the test lob == 'WC' is lost.
FallbackAnyLob(lob, fields) == fields.claims = <<>>

\* lob == 'WC' and (not fields.get('claims'))
FallbackRuns(lob, fields) == lob = "WC" /\ fields.claims = <<>>

\* A plausible slip: the heuristic result replaces the whole of fields.
FallbackReplaceAll(fields, heuristic) == heuristic

\* fields after the three assignments of the fallback
Fallback(fields, heuristic) ==
    [evaluation_date |-> Or(fields.evaluation_date, heuristic.evaluation_date),
     carrier |-> Or(fields.carrier, heuristic.carrier),
     claims |-> heuristic.claims]

\* A plausible slip: the branch of the liability labels appends to the
\* rows of the branch before it.
GroupLiabilityToAuto(lob) ==
    IF lob \in {"AUTO", "GENERAL LIABILITY", "GL"} THEN "AUTO"
    ELSE IF lob = "WC" THEN "WC"
    ELSE ""

\* the row group a LOB label feeds: "" for a label of no branch
Group(lob) ==
    IF lob = "AUTO" THEN "AUTO"
    ELSE IF lob \in {"GENERAL LIABILITY", "GL"} THEN "GL"
    ELSE IF lob = "WC" THEN "WC"
    ELSE ""

\* the claim columns of each group's rows
Columns ==
    [AUTO |-> {"claim_number", "loss_date", "paid_loss", "reserve", "alae"},
     GL |-> {"claim_number", "loss_date", "bi_paid_loss", "pd_paid_loss", "bi_reserve",
             "pd_reserve", "alae"},
     WC |-> {"claim_number", "loss_date", "Indemnity_paid_loss", "Medical_paid_loss",
             "Indemnity_reserve", "Medical_reserve", "ALAE"}]

\* the dict appended for the claim c (a dict) of fields
OutputRow(g, fields, carrier, c, source_file) ==
    [k \in Columns[g] \cup {"evaluation_date", "carrier", "source_file"} |->
        IF k = "evaluation_date" THEN Get(fields, "evaluation_date", JStr(""))
        ELSE IF k = "carrier"
             THEN Or(Or(Get(c.v, "carrier", JStr("")), carrier),
                     Get(fields, "carrier", JStr("")))
        ELSE IF k = "source_file" THEN JStr(source_file)
        ELSE Get(c.v, k, JStr(""))]

\* A plausible slip: claims without a claim number are skipped, as the
\* heuristic extractor does.
RowClaimsNumbered(claims) ==
    SelectSeq(claims, LAMBDA c : c.t # "obj" \/ Truthy(Get(c.v, "claim_number", JStr(""))))

\* for c in fields.get('claims', []): the claims the loop goes through
RowClaims(claims) == claims

\* c.get(...) raises AttributeError for a claim that is not a dict: the
\* claims handled before the first such one
BeforeRaise(claims) ==
    LET bad == {i \in 1..Len(claims) : claims[i].t # "obj"}
    IN  IF bad = {} THEN claims ELSE SubSeq(claims, 1, SetMin(bad) - 1)

\* the rows one pass of "for result in results" appends to its group
NewRows(g, fields, carrier, source_file) ==
    LET cs == BeforeRaise(RowClaims(fields.claims))
    IN  [i \in 1..Len(cs) |-> OutputRow(g, fields, carrier, cs[i], source_file)]

----------------------------------------------------------------------------
(* main: the batch run                                                     *)

MaxDocs == 2

\* the texts of the documents of the batches explored
TableText ==
    "Carrier: Acme Mutual\nEvaluation Date: 12/31/2021\nWorkers Compensation\n" \o ScenarioText
PlainText == "Loss Run Report"
BatchTexts == {TableText, PlainText, ""}

\* what the pure functions of the text give for each batch text
TextFacts ==
    [t \in BatchTexts |->
        [scores |-> KeywordScores(t),
         carrier |-> _extract_carrier_from_text(t),
         heuristic |-> HeurJson(heuristic_extract_wc(t)),
         chunks |-> NumChunks(t)]]

\* a claim with a carrier of its own and no claim number at all
ClaimOwn == JObj([carrier |-> JStr("Own"), loss_date |-> JStr("2019-09-09")])

\* answers of the oracle to the requests of a batch
LobsOf(q) == Content("object", FALSE, [lobs |-> JList([i \in 1..Len(q) |-> JStr(q[i])])])
LobOf(l) == Content("object", TRUE, [lob |-> JStr(l)])
FieldsOf(ev, ca, cl) ==
    Content("object", FALSE,
            [evaluation_date |-> JStr(ev), carrier |-> JStr(ca), claims |-> JList(cl)])

\* a document of the batch: its path, whether open() succeeds, its text,
\* and the oracle's answers to the requests made for it (multi and single
\* to the classifiers, first to the chunks of process_text_file's
\* extraction, second to the chunks of main's); facts is added below
Doc(name, readable, txt, multi, single, first, second) ==
    [name |-> name, readable |-> readable, text |-> txt, multi |-> multi,
     single |-> single, first |-> first, second |-> second]

\* Each document carries, as facts, what the pure functions give for its
\* text, and what the classifier and the file-name inferrer give for it:
\* these depend on nothing but the document and the oracle's answers for it.
WithFacts(d) ==
    [k \in DOMAIN d \cup {"facts"} |-> IF k = "facts" THEN TextFacts[d.text] ELSE d[k]]

\* lobs = classify_lobs_multi(bedrock_client, model_id, text_content), the
\* calls it makes, and _extract_carrier_from_filename(text_file_path)
WithLobs(d) ==
    [k \in DOMAIN d \cup {"lobs", "classify_calls", "name_carrier"} |->
        IF k = "lobs" THEN classify_lobs_multi(d.multi, d.single, d.facts.scores)
        ELSE IF k = "classify_calls" THEN ClassifyCalls(d.multi, d.facts.scores)
        ELSE IF k = "name_carrier" THEN _extract_carrier_from_filename(d.name)
        ELSE d[k]]

RawDocs ==
    {Doc("in/Zenith_Ins_loss_run.txt", TRUE, TableText, Raise, Raise, <<Raise>>, <<Raise>>),
     Doc("in/loss_run.txt", TRUE, TableText, LobsOf(<<"WC">>), Raise,
         <<FieldsOf("", "X", <<ClaimA>>)>>, <<FieldsOf("2020-01-01", "Y", <<ClaimA, ClaimB>>)>>),
     Doc("in/a.txt", TRUE, TableText, LobsOf(<<"WC">>), Raise,
         <<Raise>>, <<FieldsOf("2020-01-01", "Y", <<ClaimB, ClaimA>>)>>),
     Doc("in/missing.txt", FALSE, "", Raise, Raise, <<>>, <<>>),
     Doc("in/gone.txt", FALSE, "", Raise, Raise, <<>>, <<>>),
     Doc("in/Travelers_Ins_2021.txt", TRUE, PlainText, Raise, Raise,
         <<Raise>>, <<FieldsOf("", "", <<ClaimOwn, ClaimA>>)>>),
     Doc("in/b.txt", TRUE, PlainText, LobsOf(<<"GENERAL LIABILITY", "WC", "AUTO">>), Raise,
         <<FieldsOf("", "X", <<>>)>>, <<Content("bad_json", FALSE, <<>>)>>),
     Doc("in/c.txt", TRUE, TableText, LobsOf(<<"AUTO", "WC">>), Raise,
         <<FieldsOf("", "Y", <<>>)>>, <<FieldsOf("", "", <<ClaimA, JStr("oops"), ClaimB>>)>>),
     Doc("in/d.txt", TRUE, TableText, LobsOf(<<"WC">>), Raise,
         <<FieldsOf("", "X", <<>>)>>, <<FieldsOf("2020-01-01", "Y", <<>>)>>),
     Doc("in/e.txt", TRUE, PlainText, Content("no_braces", FALSE, <<>>),
         LobOf("GENERAL LIABILITY"),
         <<Raise>>, <<FieldsOf("2020-01-01", "", <<ClaimB>>)>>),
     Doc("in/empty.txt", TRUE, "", Raise, LobOf("wc"), <<Raise>>, <<Raise>>),
     Doc("in/f.txt", TRUE, PlainText, LobsOf(<<"GENERAL LIABILITY", "WC">>), Raise,
         <<Raise>>, <<FieldsOf("2021-02-02", "Z", <<ClaimA>>)>>)}

Docs == {WithLobs(WithFacts(d)) : d \in RawDocs}

\* the batches: up to MaxDocs distinct documents, in any order
Batches ==
    {q \in SeqsUpTo(Docs, MaxDocs) : \A i, j \in 1..Len(q) : i # j => q[i] # q[j]}

\* what config.py defines (None for an attribute it does not define)
GoodAttrs == [k \in ConfigKeys |-> JStr("v")]
ConfigFile(exists, loads, attrs) == [exists |-> exists, loads |-> loads, attrs |-> attrs]
ConfigFiles ==
    {ConfigFile(FALSE, FALSE, GoodAttrs), ConfigFile(TRUE, FALSE, GoodAttrs),
     ConfigFile(TRUE, TRUE, GoodAttrs)}
        \cup {ConfigFile(TRUE, TRUE, [GoodAttrs EXCEPT ![k] = v]) :
                k \in ConfigKeys, v \in {JNull, JStr("")}}

\* the configurations of a run: the file, and whether boto3 gives a client
Configs ==
    {[file |-> f, client |-> TRUE] : f \in ConfigFiles}
        \cup {[file |-> ConfigFile(TRUE, TRUE, GoodAttrs), client |-> FALSE]}

\* carrier = fields.get('carrier', ''), then the text, then the file name
ResultCarrier(d, fields) ==
    Or(Or(Get(fields, "carrier", JStr("")), JStr(d.facts.carrier)),
       JStr(d.name_carrier))

\* process_text_file(text_file_path, bedrock_client, model_id): the results,
\* the empty list when open() raises
process_text_file(d) ==
    IF ~d.readable THEN <<>>
    ELSE LET fields == extract_fields_llm_chunked(d.first)
         IN  [i \in 1..Len(d.lobs) |->
                [lob |-> d.lobs[i], carrier |-> ResultCarrier(d, fields),
                 fields |-> fields, source_file |-> d.name]]

\* the invoke_model calls of one process_text_file
ProcessCalls(d) ==
    IF ~d.readable THEN 0
    ELSE d.classify_calls + Len(d.lobs) * Len(d.first)

\* A plausible slip: break where the loop says continue.
AfterFileBreak(res) == IF res = <<>> THEN "main_frames" ELSE "main_result"

\* if not results: continue
AfterFile(res) == IF res = <<>> THEN "main_loop" ELSE "main_result"

\* cfg = load_aws_config_from_py(...); bedrock = setup_bedrock_client(cfg);
\* out_dir.mkdir(...); the input files
MainConfig ==
    /\ pc = "main_start"
    /\ IF load_aws_config_from_py(cfg.file) = <<>> \/ ~cfg.client
       THEN pc' = "main_exit" /\ UNCHANGED written
       ELSE /\ written' = [files |-> <<>>, failed |-> {}]
            /\ pc' = IF batch = <<>> THEN "main_exit" ELSE "main_loop"
    /\ UNCHANGED <<cfg, batch, doc_i, doc_results, res_i, auto_rows, gl_rows, wc_rows, log,
                   reads, calls, summary, per_lob>>
    /\ UNCHANGED <<text, exceptBatch>>

\* for text_file in text_files: results = process_text_file(...)
ProcessFile ==
    /\ pc = "main_loop"
    /\ doc_i < Len(batch)
    /\ \E d \in {batch[doc_i + 1]} :
           /\ doc_i' = doc_i + 1
           /\ doc_results' = process_text_file(d)
           /\ res_i' = 0
           /\ reads' = reads + (IF d.readable THEN 1 ELSE 0)
           /\ calls' = calls + ProcessCalls(d)
           /\ text' = IF d.readable THEN d.text ELSE text
           /\ pc' = AfterFile(doc_results')
    /\ UNCHANGED <<cfg, batch, auto_rows, gl_rows, wc_rows, log, summary, per_lob, written>>
    /\ UNCHANGED exceptBatch

\* the body of "for result in results", up to the rows it appends or the
\* AttributeError of c.get on a claim that is not a dict
HandleResult ==
    /\ pc = "main_result"
    /\ \E d \in {batch[doc_i]}, r \in {doc_results[res_i + 1]} :
       \E oracle \in {extract_fields_llm_chunked(d.second)}, heuristic \in {d.facts.heuristic} :
       \E ran \in {FallbackRuns(r.lob, oracle)}, g \in {Group(r.lob)} :
       \E fields \in {IF ran THEN Fallback(oracle, heuristic) ELSE oracle} :
       \E rows \in {IF g = "" THEN <<>> ELSE NewRows(g, fields, r.carrier, r.source_file)} :
       \E raised \in {g # "" /\ Len(rows) < Len(RowClaims(fields.claims))} :
           /\ reads' = reads + (IF ran THEN 2 ELSE 1)
           /\ calls' = calls + Len(d.second)
           /\ auto_rows' = IF g = "AUTO" THEN auto_rows \o rows ELSE auto_rows
           /\ gl_rows' = IF g = "GL" THEN gl_rows \o rows ELSE gl_rows
           /\ wc_rows' = IF g = "WC" THEN wc_rows \o rows ELSE wc_rows
           /\ log' = Append(log, [doc |-> doc_i, lob |-> r.lob, carrier |-> r.carrier,
                                  oracle |-> oracle, ran |-> ran, heuristic |-> heuristic,
                                  fields |-> fields, rows |-> rows, raised |-> raised])
           /\ res_i' = res_i + 1
           /\ pc' = IF raised THEN "main_aborted"
                    ELSE IF res_i + 1 < Len(doc_results) THEN "main_result"
                    ELSE "main_loop"
    /\ UNCHANGED <<cfg, batch, doc_i, doc_results, summary, per_lob, written>>
    /\ UNCHANGED <<text, exceptBatch>>

\* per_lob: a DataFrame of each group's rows, an empty one for no rows
MainFrames ==
    /\ pc = "main_loop"
    /\ doc_i = Len(batch)
    /\ per_lob' = [AUTO |-> auto_rows, GL |-> gl_rows, WC |-> wc_rows]
    /\ pc' = "main_frames"
    /\ UNCHANGED <<batchVars, written>>
    /\ UNCHANGED <<text, exceptBatch>>

\* write_outputs(per_lob, out_dir) and the summary
MainWrite ==
    /\ pc = "main_frames"
    /\ \E fails \in WriteFailures :
           written' = [files |-> write_outputs(per_lob, fails), failed |-> fails]
    /\ summary' = [AUTO |-> Len(auto_rows), GL |-> Len(gl_rows), WC |-> Len(wc_rows)]
    /\ pc' = "main_done"
    /\ UNCHANGED <<cfg, batch, doc_i, doc_results, res_i, auto_rows, gl_rows, wc_rows, log,
                   reads, calls, per_lob>>
    /\ UNCHANGED <<text, exceptBatch>>

InitBatch ==
    /\ pc = "main_start"
    /\ text = ""
    /\ cfg \in Configs
    /\ batch \in Batches
    /\ doc_i = 0 /\ doc_results = <<>> /\ res_i = 0
    /\ auto_rows = <<>> /\ gl_rows = <<>> /\ wc_rows = <<>> /\ log = <<>>
    /\ reads = 0 /\ calls = 0 /\ summary = <<>>
    /\ ChunkIdle /\ MergeIdle /\ ClassIdle /\ HeurIdle /\ MoneyIdle /\ ExtractIdle /\ WriteIdle /\ AppsIdle

NextBatch == MainConfig \/ ProcessFile \/ HandleResult \/ MainFrames \/ MainWrite

SpecBatch == InitBatch /\ [][NextBatch]_vars

\* the run is a sequential program: a step that can be taken is taken
SpecBatchFair == SpecBatch /\ WF_vars(NextBatch)

----------------------------------------------------------------------------
(* Properties of the batch run                                             *)

RECURSIVE LogRows(_, _)
\* the rows the log records for the group g, in order
LogRows(l, g) ==
    IF l = <<>> THEN <<>>
    ELSE (IF Group(Head(l).lob) = g THEN Head(l).rows ELSE <<>>) \o LogRows(Tail(l), g)

\* the rows each group holds are those appended pair by pair
RowsOf(g) == IF g = "AUTO" THEN auto_rows ELSE IF g = "GL" THEN gl_rows ELSE wc_rows

\* C12: in the batch pipeline heuristic_extract_wc is run for a (document,
\* LOB) pair if and only if the LOB is WC and the chunked oracle extraction
\* returned zero claims: never for AUTO or GENERAL LIABILITY, never for WC
\* with at least one oracle claim.
HeuristicTrigger ==
    \A i \in 1..Len(log) :
        log[i].ran <=> (log[i].lob = "WC" /\ Len(log[i].oracle.claims) = 0)

\* a run in which the fallback ran for a WC pair, was skipped for a WC pair
\* with oracle claims, and was skipped for an AUTO pair with zero claims
HeuristicTriggerWitness ==
    /\ \E i \in 1..Len(log) : log[i].ran /\ log[i].lob = "WC"
    /\ \E i \in 1..Len(log) :
           ~log[i].ran /\ log[i].lob = "WC" /\ Len(log[i].oracle.claims) > 0
    /\ \E i \in 1..Len(log) :
           ~log[i].ran /\ log[i].lob = "AUTO" /\ Len(log[i].oracle.claims) = 0

\* C13: when the heuristic fallback runs it replaces the claims list; an
\* evaluation_date or carrier the oracle extraction had populated is left
\* unchanged, and the heuristic's value is substituted only where the
\* oracle's was empty.
FallbackFrame ==
    \A i \in 1..Len(log) :
        log[i].ran =>
            /\ log[i].fields.claims = log[i].heuristic.claims
            /\ \A k \in {"evaluation_date", "carrier"} :
                   IF Truthy(log[i].oracle[k])
                   THEN log[i].fields[k] = log[i].oracle[k]
                   ELSE log[i].fields[k] = log[i].heuristic[k]

\* a run in which the fallback kept the oracle's scalars against different
\* ones of the heuristic for one pair, and substituted the heuristic's for
\* another, with heuristic claims replacing the empty list
FallbackFrameWitness ==
    /\ \E i \in 1..Len(log) :
           /\ log[i].ran
           /\ log[i].oracle.carrier = JStr("Y")
           /\ log[i].heuristic.carrier = JStr("Acme Mutual")
           /\ log[i].oracle.evaluation_date = JStr("2020-01-01")
           /\ log[i].heuristic.evaluation_date = JStr("12/31/2021")
           /\ Len(log[i].fields.claims) = 1
    /\ \E i \in 1..Len(log) :
           /\ log[i].ran
           /\ log[i].oracle.carrier = JStr("")
           /\ log[i].fields.carrier = JStr("Acme Mutual")
           /\ log[i].fields.evaluation_date = JStr("12/31/2021")

\* the first non-empty of the claim's own carrier, the carrier of the
\* extraction result the claims came from, and the file name's guess
StatedCarrier(c, fields, d) ==
    Or(Or(Get(c.v, "carrier", JStr("")), fields.carrier), JStr(d.name_carrier))

\* C14: for every output row, carrier is the first non-empty value of the
\* claim's own carrier, the carrier of the extraction result the row's
\* claims came from, and the filename-based guess, in that order.
CarrierPrecedence ==
    \A i \in 1..Len(log) : \A j \in 1..Len(log[i].rows) :
        log[i].rows[j].carrier =
            StatedCarrier(log[i].fields.claims[j], log[i].fields, batch[log[i].doc])

\* C15: a document that cannot be read contributes no row to any group and
\* no (document, LOB) pair; the documents after it are still processed, and
\* the batch reaches its end with every readable document's rows.
ReadIsolation ==
    /\ \A i \in 1..doc_i :
           ~batch[i].readable =>
               /\ \A n \in 1..Len(log) : log[n].doc # i
               /\ \A g \in {"AUTO", "GL", "WC"} : \A n \in 1..Len(RowsOf(g)) :
                      RowsOf(g)[n].source_file # JStr(batch[i].name)
    /\ \A g \in {"AUTO", "GL", "WC"} : RowsOf(g) = LogRows(log, g)
    /\ pc = "main_aborted" => batch[doc_i].readable /\ log[Len(log)].raised
    /\ pc \in {"main_frames", "main_done"} =>
           /\ doc_i = Len(batch)
           /\ \A i \in 1..Len(batch) :
                  batch[i].readable => \E n \in 1..Len(log) : log[n].doc = i

\* a finished run whose first document could not be read and whose second
\* one contributed rows
ReadIsolationWitness ==
    /\ pc = "main_done"
    /\ Len(batch) = 2
    /\ ~batch[1].readable
    /\ batch[2].readable
    /\ summary.WC + summary.AUTO + summary.GL > 0

\* C16: once configuration has loaded, for every batch and every oracle
\* behaviour the run eventually reaches the output-writing step and reports
\* the per-LOB row counts.
BatchCompletes == (pc = "main_loop") ~> (pc = "main_done" /\ summary # <<>>)

\* whether the configuration file is missing, fails to load, or lacks one
\* of the five settings
ConfigBad(f) ==
    \/ ~f.exists
    \/ ~f.loads
    \/ \E k \in ConfigKeys : f.attrs[k] \in {JNull, JStr("")}

\* C17: if the configuration file is missing, fails to load or lacks any of
\* access key, secret key, session token, region or model id, the run ends
\* without reading any document, without any oracle invocation and without
\* writing any output artifact.
ConfigFatal ==
    (pc \in {"main_start", "main_exit", "main_loop", "main_result", "main_frames",
             "main_done", "main_aborted"} /\ ConfigBad(cfg.file)) =>
        /\ pc \in {"main_start", "main_exit"}
        /\ reads = 0
        /\ calls = 0
        /\ written = <<>>
        /\ per_lob = <<>>

\* a run ended by a configuration without session token, documents waiting
ConfigFatalWitness ==
    /\ pc = "main_exit"
    /\ cfg.file.exists /\ cfg.file.loads
    /\ cfg.file.attrs["session_token"] = JStr("")
    /\ \A k \in ConfigKeys \ {"session_token"} : cfg.file.attrs[k] = JStr("v")
    /\ Len(batch) = 2
    /\ batch[1].readable

IsPrefix(p, q) == Len(p) <= Len(q) /\ SubSeq(q, 1, Len(p)) = p

\* the labels whose extractions feed the group g
OwnLabels(g) ==
    IF g = "AUTO" THEN {"AUTO"}
    ELSE IF g = "GL" THEN {"GENERAL LIABILITY", "GL"}
    ELSE {"WC"}

\* one step leaves the rows a group already holds as they are, and adds
\* rows only at the end, only while a pair of the group's own LOB is
\* handled, with the current document's path and in the order of the claims
Accumulates ==
    /\ doc_i' >= doc_i
    /\ \A g \in {"AUTO", "GL", "WC"} :
           /\ IsPrefix(RowsOf(g), RowsOf(g)')
           /\ Len(RowsOf(g)') > Len(RowsOf(g)) =>
                  /\ pc = "main_result"
                  /\ doc_results[res_i + 1].lob \in OwnLabels(g)
                  /\ \A n \in 1..(Len(RowsOf(g)') - Len(RowsOf(g))) :
                         LET row == RowsOf(g)'[Len(RowsOf(g)) + n]
                             c == log'[Len(log')].fields.claims[n]
                         IN  /\ row.source_file = JStr(batch[doc_i].name)
                             /\ row.claim_number = Get(c.v, "claim_number", JStr(""))
                             /\ row.loss_date = Get(c.v, "loss_date", JStr(""))

\* C21: after any prefix of the batch each row group holds only rows of
\* extractions for its own LOB (GENERAL LIABILITY feeds GL), each row's
\* source_file is the path of the document that produced the claim, rows
\* stand in document order then claim order, and a later document never
\* removes or changes the rows of an earlier one.
BatchAccumulation == [][Accumulates]_vars

\* a finished batch of two documents, the second feeding both the GL and
\* the WC group, the WC group holding the first document's rows before it
BatchAccumulationWitness ==
    /\ pc = "main_done"
    /\ Len(batch) = 2
    /\ Len(wc_rows) >= 3
    /\ wc_rows[1].source_file = JStr(batch[1].name)
    /\ wc_rows[2].source_file = JStr(batch[1].name)
    /\ wc_rows[Len(wc_rows)].source_file = JStr(batch[2].name)
    /\ Len(gl_rows) = 1
    /\ gl_rows[1].source_file = JStr(batch[2].name)

RECURSIVE StatedCalls(_)
\* the requests of a batch if each (document, LOB) pair is extracted once:
\* those of the classifier, and one per chunk for each detected LOB
StatedCalls(b) ==
    IF b = <<>> THEN 0
    ELSE (IF Head(b).readable
          THEN Head(b).classify_calls + Len(Head(b).lobs) * Head(b).facts.chunks
          ELSE 0) + StatedCalls(Tail(b))

\* C27: the chunked extractor runs once for each document and each detected
\* LOB, so a finished batch has made, besides the classifier's requests, as
\* many requests per pair as the text has chunks, and none twice.
OneExtractionPass ==
    pc \in {"main_frames", "main_done"} => calls = StatedCalls(batch)

----------------------------------------------------------------------------
(* Further properties of _chunk_text_for_llm                               *)

\* C22: for every text and every max_chars the loop terminates, because the
\* cursor strictly advances on every iteration (every emitted chunk is
\* non-empty) until it reaches the end of the text.
ChunkCursorAdvances ==
    [][(pc = "chunk_loop" /\ pc' = "chunk_loop") =>
          (start' > start /\ chunks'[Len(chunks')] # "")]_vars

\* the offset in the text at which the i-th chunk starts
ChunkStart(i) == Len(Concat(SubSeq(chunks, 1, i - 1)))

\* the end the cut rule states for the chunk at cursor s
StatedEnd(t, s, m) ==
    LET nls == {i \in s..(s + m - 1) : i < Len(t) /\ CharAt(t, i) = "\n"}
    IN  IF s + m >= Len(t) THEN Len(t)
        ELSE IF nls # {} /\ SetMax(nls) > s + 1000 THEN SetMax(nls)
        ELSE s + m

\* C23: with s + max_chars before the end of the text the chunk at cursor s
\* ends at the last newline inside [s, s + max_chars) if that index is
\* greater than s + 1000 and otherwise exactly at s + max_chars; when
\* s + max_chars reaches or passes the end the chunk ends at the text end.
ChunkCutRule ==
    \A i \in 1..Len(chunks) :
        ChunkStart(i) + Len(chunks[i]) = StatedEnd(text, ChunkStart(i), max_chars)

\* a finished run whose first chunk was cut at max_chars although a newline
\* stands exactly 1000 characters after its start, and whose second chunk
\* ends with the text
ChunkCutRuleWitness ==
    /\ pc = "chunk_done"
    /\ Len(chunks) = 2
    /\ Len(text) > NewlineMinOffset + 2
    /\ max_chars = NewlineMinOffset + 2
    /\ CharAt(text, NewlineMinOffset) = "\n"
    /\ Len(chunks[1]) = max_chars
    /\ ChunkStart(2) + Len(chunks[2]) = Len(text)

----------------------------------------------------------------------------
(* Further properties of classify_lob                                      *)

\* the label the fallback rule states for the hit counts: the highest count,
\* the earlier label on equal counts, AUTO when every count is zero
StatedBest(scores) ==
    IF \A i \in 1..3 : scores[i] = 0 THEN "AUTO"
    ELSE LOBS[CHOOSE i \in 1..3 :
                 /\ \A j \in 1..3 : scores[j] <= scores[i]
                 /\ \A j \in 1..(i - 1) : scores[j] < scores[i]]

\* C24: when the oracle yields no usable label, classify_lob returns the
\* label with the highest keyword hit count; on equal highest counts the
\* earlier of AUTO, GENERAL LIABILITY, WC wins; with all counts zero it
\* returns AUTO.
SingleKeywordFallback ==
    (/\ pc \in {"lob_done", "multi_done"}
     /\ resp_single # NoResp
     /\ OracleLob(resp_single) = "") => lob_out = StatedBest(ScoresOfText[text])

\* classify_lob with a raising oracle on a text with one AUTO keyword and
\* two WC keywords: WC is returned
SingleKeywordFallbackWitness ==
    /\ pc = "lob_done"
    /\ resp_single.kind = "raise"
    /\ ScoresOfText[text] = <<1, 0, 2>>
    /\ lob_out = "WC"

----------------------------------------------------------------------------
(* claude_pdf_extractor.py: extract_tables_with_claude_page_by_page        *)

\* the marker the text of a PDF is split on
PageMark == "--- PAGE"

RECURSIVE SplitOn(_, _)
\* s.split(sep) for a non-empty sep
SplitOn(s, sep) ==
    LET i == Find(s, sep, 0)
    IN  IF i = -1 THEN <<s>>
        ELSE <<Slice(s, 0, i)>> \o SplitOn(Slice(s, i + Len(sep), Len(s)), sep)

RECURSIVE PackPages(_, _, _, _)
\* for page in pages: ..., then the append of the last current_chunk
PackPages(pages, current_chunk, out, size) ==
    IF pages = <<>>
    THEN IF Strip(current_chunk) # "" THEN Append(out, Strip(current_chunk)) ELSE out
    ELSE LET page == Head(pages)
         IN  IF Strip(page) = "" THEN PackPages(Tail(pages), current_chunk, out, size)
             ELSE IF Len(current_chunk) + Len(page) > size /\ current_chunk # ""
                  THEN PackPages(Tail(pages), page, Append(out, Strip(current_chunk)), size)
             ELSE PackPages(Tail(pages), current_chunk \o "\n" \o PageMark \o page, out, size)

\* text_chunks: the whole text, or its pages packed up to max_chunk_size
TextChunks(pdf_text, size) ==
    IF Len(pdf_text) > size THEN PackPages(SplitOn(pdf_text, PageMark), "", <<>>, size)
    ELSE <<pdf_text>>

\* What one invoke_model call gives: an exception (of the call or of
\* reading the response body), a text without '[', a text whose bracketed
\* part is not JSON, or a JSON array of tables.
PageAnswer(kind, tables) == [kind |-> kind, tables |-> tables]
PageAnswers ==
    {PageAnswer("raise", <<>>), PageAnswer("no_bracket", <<>>),
     PageAnswer("bad_json", <<>>), PageAnswer("tables", <<>>),
     PageAnswer("tables", <<"T1", "T2">>)}

\* all_tables after the answer to one chunk
ExtendTables(tables, a) == IF a.kind = "tables" THEN tables \o a.tables ELSE tables

\* whether time.sleep(api_delay) is reached after the answer a: the except
\* branch of the call ends the iteration with continue
SleepsAfter(a) == a.kind # "raise"

CallEvent(i) == [op |-> "invoke_model", chunk |-> i, delay |-> 0]
SleepEvent(i, d) == [op |-> "sleep", chunk |-> i, delay |-> d]

\* text_chunks = ...; all_tables = []
PagesSplit ==
    /\ pc = "pages_start"
    /\ text_chunks' = TextChunks(text, max_chunk_size)
    /\ pc' = "pages_loop"
    /\ UNCHANGED <<text, max_chunk_size, api_delay, answers, chunk_idx, all_tables, events>>
    /\ UNCHANGED exceptPages

\* one iteration of "for chunk_idx, chunk in enumerate(text_chunks, 1)"
PagesChunk ==
    /\ pc = "pages_loop"
    /\ chunk_idx < Len(text_chunks)
    /\ \E a \in {answers[chunk_idx + 1]} :
          /\ all_tables' = ExtendTables(all_tables, a)
          /\ events' = events \o <<CallEvent(chunk_idx + 1)>>
                          \o (IF SleepsAfter(a)
                              THEN <<SleepEvent(chunk_idx + 1, api_delay)>> ELSE <<>>)
    /\ chunk_idx' = chunk_idx + 1
    /\ UNCHANGED <<pc, text, max_chunk_size, api_delay, answers, text_chunks>>
    /\ UNCHANGED exceptPages

\* return all_tables
PagesReturn ==
    /\ pc = "pages_loop"
    /\ chunk_idx = Len(text_chunks)
    /\ pc' = "pages_done"
    /\ UNCHANGED <<text, pagesVars>>
    /\ UNCHANGED exceptPages

\* Inputs: texts of up to three pages as pdf_to_text writes them, a text
\* of blanks only, two chunk sizes and two delays.
MaxPageChunks == 3
PageTexts ==
    {"", "     ", "no pages here",
     "--- PAGE 1 ---\nab\n\n",
     "--- PAGE 1 ---\nab\n\n--- PAGE 2 ---\ncd\n\n",
     "--- PAGE 1 ---\nab\n\n--- PAGE 2 ---\ncd\n\n--- PAGE 3 ---\nef\n\n"}
PageChunkSizes == {4, 30}
ApiDelays == {1, 2}

InitPages ==
    /\ pc = "pages_start"
    /\ text \in PageTexts
    /\ max_chunk_size \in PageChunkSizes
    /\ api_delay \in ApiDelays
    /\ answers \in [1..MaxPageChunks -> PageAnswers]
    /\ text_chunks = <<>> /\ chunk_idx = 0 /\ all_tables = <<>> /\ events = <<>>
    /\ PipelineIdle /\ FitzIdle /\ UiIdle

NextPages == PagesSplit \/ PagesChunk \/ PagesReturn

SpecPages == InitPages /\ [][NextPages]_vars

\* C28: between the call for chunk i and the call for chunk i+1 the
\* configured delay is applied, whatever the call for chunk i did: no two
\* invoke_model calls are adjacent in the order of events.
DelayBetweenCalls ==
    \A i \in 1..(Len(events) - 1) :
       (events[i].op = "invoke_model" /\ events[i + 1].op = "invoke_model") => FALSE

----------------------------------------------------------------------------
(* fitzTest3.py: pdf_to_text                                               *)

\* max_retries
max_retries == 3

\* Path(p).name: what follows the last "/"
PathName(p) == Slice(p, RFind(p, "/", 0, Len(p)) + 1, Len(p))

\* Path(p).stem: the name without its last suffix
PathStem(p) ==
    LET name == PathName(p)
        dot == RFind(name, ".", 0, Len(name))
    IN  IF dot > 0 /\ dot < Len(name) - 1 THEN Slice(name, 0, dot) ELSE name

\* str(Path("./tmp") / f"{pdf_name}_extracted.txt")
TextFilePath(p) == "tmp/" \o PathStem(p) \o "_extracted.txt"

RECURSIVE PagesText(_, _)
\* text_content after the pages from page_num on
PagesText(pages, page_num) ==
    IF page_num >= Len(pages) THEN ""
    ELSE "--- PAGE " \o IntStr(page_num + 1) \o " ---\n" \o pages[page_num + 1] \o "\n\n"
            \o PagesText(pages, page_num + 1)

\* what fitz.open and the page loop do: the pages, or an exception
Unopenable == <<"fitz.open raises">>

\* what one "with open(text_file_path, 'w') ... f.write" does
WriteOutcomes == {"ok", "PermissionError", "OSError"}

\* A plausible slip: the test of the last attempt is lost, so a
\* PermissionError is always swallowed.
RetriesAlways(k) == TRUE

\* if attempt < max_retries - 1, for the 0-based attempt k
Retries(k) == k < max_retries - 1

\* output_path.mkdir; doc = fitz.open(pdf_path); the page loop
FitzOpen ==
    /\ pc = "fitz_start"
    /\ IF doc_pages = Unopenable
       THEN ret' = JNull /\ pc' = "fitz_done"
       ELSE ret' = ret /\ pc' = "fitz_write"
    /\ UNCHANGED <<pdf_path, doc_pages, faults, attempt, text_file>>
    /\ UNCHANGED exceptFitz

\* one iteration of "for attempt in range(max_retries)", and what follows
\* the loop when the iteration ends it
FitzWrite ==
    /\ pc = "fitz_write"
    /\ attempt < max_retries
    /\ attempt' = attempt + 1
    /\ \E o \in {faults[attempt + 1]} :
          IF o = "ok"
          THEN /\ text_file' = PagesText(doc_pages, 0)
               /\ ret' = JStr(TextFilePath(pdf_path))
               /\ pc' = "fitz_done"
          ELSE IF o = "PermissionError" /\ Retries(attempt)
          THEN UNCHANGED <<text_file, ret, pc>>
          ELSE /\ ret' = JNull
               /\ pc' = "fitz_done"
               /\ UNCHANGED text_file
    /\ UNCHANGED <<pdf_path, doc_pages, faults>>
    /\ UNCHANGED exceptFitz

PdfPaths == {"in/a.pdf", "loss.run.PDF"}
PdfDocs == {Unopenable, <<>>, <<"ab", "cd\n">>}

InitFitz ==
    /\ pc = "fitz_start"
    /\ pdf_path \in PdfPaths
    /\ doc_pages \in PdfDocs
    /\ faults \in [1..max_retries -> WriteOutcomes]
    /\ attempt = 0 /\ text_file = "" /\ ret = ""
    /\ text = ""
    /\ PipelineIdle /\ PagesIdle /\ UiIdle

NextFitz == FitzOpen \/ FitzWrite

SpecFitz == InitFitz /\ [][NextFitz]_vars

\* C29: the write is attempted at most 3 times; a PermissionError on
\* attempt 1 or 2 is followed by another attempt; the first attempt that
\* succeeds ends the loop and the output path is returned; a
\* PermissionError on attempt 3, or another exception on any attempt, ends
\* the call with None and no further attempt.
WriteStep ==
    pc = "fitz_write" =>
        LET o == faults[attempt + 1]
        IN  /\ attempt < 3
            /\ attempt' = attempt + 1
            /\ (o = "PermissionError" /\ attempt' \in {1, 2})
                  => (pc' = "fitz_write" /\ ret' = ret)
            /\ o = "ok"
                  => (pc' = "fitz_done" /\ ret' = JStr(TextFilePath(pdf_path)))
            /\ ((o = "PermissionError" /\ attempt' = 3) \/ o = "OSError")
                  => (pc' = "fitz_done" /\ ret' = JNull)
BoundedWriteRetry == [][attempt <= 3 /\ WriteStep /\ (pc = "fitz_done" => attempt' = attempt)]_vars

\* the file was locked twice and written at the third attempt
BoundedWriteRetryWitness ==
    /\ pc = "fitz_done"
    /\ attempt = 3
    /\ faults = <<"PermissionError", "PermissionError", "ok">>
    /\ ret = JStr("tmp/loss.run_extracted.txt")
    /\ text_file = "--- PAGE 1 ---\nab\n\n--- PAGE 2 ---\ncd\n\n\n"

----------------------------------------------------------------------------
(* streamlit_e2e_app.py: one script run per user action                    *)

\* the session state after the "if ... not in st.session_state" block
SessionDefaults ==
    [uploaded_file |-> JNull, processing_complete |-> FALSE, result_file |-> JNull,
     processing_status |-> "Ready"]

\* s.startswith(p)
StartsWith(s, p) == Slice(s, 0, Len(p)) = p

RECURSIVE Replace(_, _)
\* s.replace(old, "")
Replace(s, old) ==
    LET i == Find(s, old, 0)
    IN  IF i = -1 THEN s
        ELSE Slice(s, 0, i) \o Replace(Slice(s, i + Len(old), Len(s)), old)

\* a returned pair, a returned str, and None
Pair(a, b) == [t |-> "tuple", a |-> a, b |-> b]

\* What subprocess.run gives: a TimeoutExpired, another exception, or a
\* completed process with its return code and captured output.
Completed(returncode, stdout, stderr) ==
    [kind |-> "completed", returncode |-> returncode, stdout |-> stdout, stderr |-> stderr]
TimedOut == [kind |-> "timeout", returncode |-> -1, stdout |-> "", stderr |-> ""]
LaunchError == [kind |-> "exception", returncode |-> -1, stdout |-> "", stderr |-> ""]

\* the lines of result.stdout that start with SUCCESS:
SuccessLines(run) ==
    SelectSeq(SplitOn(Strip(run.stdout), "\n"), LAMBDA line : StartsWith(line, "SUCCESS:"))

\* convert_pdf_to_text(pdf_path, tmp_dir) for what subprocess.run gives
convert_pdf_to_text(run) ==
    IF run.kind = "timeout" THEN Pair(JNull, JStr("PDF conversion timed out"))
    ELSE IF run.kind = "exception" THEN Pair(JNull, JStr("launch failed"))
    ELSE IF run.returncode = 0 /\ SuccessLines(run) # <<>>
         THEN JStr(Strip(Replace(SuccessLines(run)[1], "SUCCESS:")))
    ELSE Pair(JNull, JStr(run.stderr))

\* "text_file_path, error = value": a pair unpacks to its parts, a str of
\* two characters to its characters, any other str raises ValueError
Unpack(v) ==
    IF v.t = "tuple" THEN [raised |-> FALSE, a |-> v.a, b |-> v.b]
    ELSE IF Len(v.v) = 2
         THEN [raised |-> FALSE, a |-> JStr(CharAt(v.v, 0)), b |-> JStr(CharAt(v.v, 1))]
    ELSE [raised |-> TRUE, a |-> JNull, b |-> JNull]

\* the process_text_file of the app for what its subprocess and the glob
\* of the output directory give
AppProcessTextFile(run, excel_files, name) ==
    IF run.kind = "timeout" THEN Pair(JNull, JStr("Text processing timed out"))
    ELSE IF run.kind = "exception" THEN Pair(JNull, JStr("launch failed"))
    ELSE IF run.returncode = 0
         THEN IF excel_files # <<>>
              THEN Pair(JStr("results/" \o Replace(name, ".pdf") \o "/"
                                \o Replace(name, ".pdf") \o ".xlsx"), JNull)
              ELSE Pair(JNull, JStr("No Excel file generated"))
    ELSE Pair(JNull, JStr(run.stderr))

\* what fitzTest3.py prints and exits with, for the path it was given
FitzRuns(path) ==
    {Completed(0, "Processing PDF: " \o path \o "\nTotal pages: 0\n"
                    \o "Text extracted successfully!\n"
                    \o "SUCCESS:" \o TextFilePath(path) \o "\n", ""),
     Completed(1, "ERROR: Error converting PDF: locked\nFAILED\n", ""),
     Completed(1, "ERROR: PDF file not found: " \o path \o "\n", ""),
     TimedOut, LaunchError}

\* what text_lob_llm_extractor.py exits with, and the *.xlsx files found
ExtractorRuns ==
    {[run |-> Completed(0, "done", ""), excel |-> <<"result.xlsx">>],
     [run |-> Completed(0, "done", ""), excel |-> <<>>],
     [run |-> Completed(1, "", "config missing"), excel |-> <<>>],
     [run |-> TimedOut, excel |-> <<>>]}
NoRun == [run |-> LaunchError, excel |-> <<>>]

\* the uploaded files and the time stamps of save_to_backup
UploadNames == {"a.pdf", "loss run.pdf"}
Stamps == {"20240101_000000", "20240101_000001"}

\* save_to_backup at the top of every script run with a file in the widget
Backup(state, file, stamp) ==
    IF file = JNull THEN state
    ELSE [state EXCEPT !.uploaded_file = JStr("backup/" \o stamp \o "_" \o file.v)]

\* the user puts a file into the uploader, or takes it out
UiUpload ==
    /\ pc = "ui_idle"
    /\ \E file \in {JNull} \cup {JStr(n) : n \in UploadNames}, stamp \in Stamps :
          /\ file # uploader
          /\ uploader' = file
          /\ session_state' = Backup(session_state, file, stamp)
    /\ UNCHANGED <<pc, last_run>>
    /\ UNCHANGED exceptUi

\* The script run of a click of Start Processing: the body of the button's
\* if, from processing_status = "Processing" to its last assignment.
UiStart ==
    /\ pc = "ui_idle"
    /\ uploader # JNull
    /\ session_state.processing_status # "Processing"
    /\ \E stamp \in Stamps :
       \E saved \in {Backup(session_state, uploader, stamp)} :
       \E conv \in FitzRuns(saved.uploaded_file.v) :
       \E got \in {Unpack(convert_pdf_to_text(conv))} :
       \E reached \in {~got.raised /\ Truthy(got.a)} :
       \E proc \in (IF reached THEN ExtractorRuns ELSE {NoRun}) :
       \E res \in {AppProcessTextFile(proc.run, proc.excel, uploader.v)} :
          /\ last_run' = [backup_path |-> saved.uploaded_file, conv |-> conv,
                          raised |-> got.raised,
                          steps |-> IF reached
                                    THEN <<"convert_pdf_to_text", "process_text_file">>
                                    ELSE <<"convert_pdf_to_text">>,
                          proc |-> proc]
          /\ session_state' =
                IF reached /\ Truthy(res.a)
                THEN [saved EXCEPT !.processing_complete = TRUE,
                                   !.result_file = res.a,
                                   !.processing_status = "Complete"]
                ELSE [saved EXCEPT !.processing_status = "Error"]
    /\ UNCHANGED <<pc, uploader>>
    /\ UNCHANGED exceptUi

\* Reset Session: every key is deleted and the script runs again
UiReset ==
    /\ pc = "ui_idle"
    /\ session_state # SessionDefaults
    /\ \E stamp \in Stamps :
          session_state' = Backup(SessionDefaults, uploader, stamp)
    /\ last_run' = <<>>
    /\ UNCHANGED <<pc, uploader>>
    /\ UNCHANGED exceptUi

InitUi ==
    /\ pc = "ui_idle"
    /\ uploader = JNull
    /\ session_state = SessionDefaults
    /\ last_run = <<>>
    /\ text = ""
    /\ PipelineIdle /\ PagesIdle /\ FitzIdle

NextUi == UiUpload \/ UiStart \/ UiReset

SpecUi == InitUi /\ [][NextUi]_vars

\* the conversion subprocess of the last click exited with 0 and printed a
\* SUCCESS line
ConversionSucceeded ==
    /\ last_run.conv.kind = "completed"
    /\ last_run.conv.returncode = 0
    /\ \E i \in 0..Len(last_run.conv.stdout) :
          Slice(last_run.conv.stdout, i, i + 9) = "\nSUCCESS:"

\* C30: after a click of Start Processing the status is Complete or Error;
\* if the conversion subprocess succeeded the run went on to the
\* text-processing step; and the status is Complete with result_file set
\* exactly when both steps succeeded.
EndToEndOutcome ==
    last_run # <<>> =>
        /\ session_state.processing_status \in {"Complete", "Error"}
        /\ ConversionSucceeded => last_run.steps[Len(last_run.steps)] = "process_text_file"
        /\ (session_state.processing_status = "Complete" /\ session_state.result_file # JNull)
              <=> (/\ ConversionSucceeded
                   /\ last_run.proc.run.kind = "completed"
                   /\ last_run.proc.run.returncode = 0
                   /\ last_run.proc.excel # <<>>)

====
